---- MODULE Spec2Model ----
(***************************************************************************)
(* A model of the webscrapper repository: the WebScraper of                *)
(* src/src/config-cli.js (constructor, init, scrapeText,                   *)
(* scrapeTextStructured, scrapeMultiplePages) driven by                    *)
(* BulkScraper.scrapeUrls of src/src/bulk-scraper.js.                      *)
(*                                                                         *)
(* One control flow runs at a time (async/await, no concurrency inside a   *)
(* batch), so the position of the program is one program counter, pc.      *)
(* Every await of the code is a step boundary.  The rendering engine       *)
(* (playwright) is the environment: which responses a navigation produces, *)
(* whether a call of it resolves or rejects, and which document is loaded  *)
(* are nondeterministic choices.                                           *)
(***************************************************************************)
EXTENDS Integers, Sequences, FiniteSets, TLC

----------------------------------------------------------------------------
(* Bounds of the model *)

\* the longest URL list given to scrapeUrls
MaxUrls == 3
\* the largest batchSize given to scrapeUrls
MaxBatchSize == 2
\* the most responses, beyond the first of each page.goto, that the engine
\* delivers during one run
MaxExtraResponses == 2
\* the most calls of the rendering engine that fail during one run
MaxFailures == 1

----------------------------------------------------------------------------
(* Values *)

\* the JS null / undefined of a field that holds no object
Null == "null"

\* URLs a caller may pass.  "http://a" is not in the serialised form the
\* engine reports (which ends the authority with "/"); "http://b/" is.
RequestUrls == {"http://a", "http://b/"}

\* the engine's serialisation of a URL, as response.url() reports it
BrowserUrl(u) == IF u = "http://a" THEN "http://a/" ELSE u

\* a string that begins with http and is no URL: the scheme separator is
\* missing
MalformedUrl == "http//bad"

\* where a redirect may point, and the URL of a sub-resource of a page
RedirectTarget == "http://new/"
SubResourceUrl == "http://cdn/x"
SubResourceTarget == "http://cdn/y"

\* the statuses the server of a URL answers with
StatusesAt(u) == IF u = RedirectTarget THEN {200, 301} ELSE {200, 302}

\* error.message of the failures of the rendering engine
MsgLaunch == "browserType.launch: failed"
MsgNewContext == "browser.newContext: failed"
MsgNullContext == "Cannot read properties of null (reading 'newPage')"
MsgNewPage == "context.newPage: failed"
MsgGoto == "page.goto: net::ERR"
MsgInvalidUrl == "page.goto: Protocol error (Page.navigate): Cannot navigate to invalid URL"
MsgWaitTimeout == "page.waitForSelector: Timeout exceeded"
MsgEvaluate == "page.evaluate: failed"

Timestamp == "ts"

----------------------------------------------------------------------------
(* Documents.  A document is the sequence of the elements under body in    *)
(* document order; parent = 0 is body.  An element carries at most one     *)
(* text node of its own, which precedes its child elements.                *)

\* ref is the href of an anchor or the src of an image ("" = no attribute)
El(parent, tag, id, cls, text) ==
    [parent |-> parent, tag |-> tag, id |-> id, cls |-> cls, text |-> text, ref |-> ""]

ElRef(parent, tag, text, ref) ==
    [parent |-> parent, tag |-> tag, id |-> "", cls |-> "", text |-> text, ref |-> ref]

DocSections ==
    << El(0, "h1", "", "", <<"Title">>),
       El(0, "section", "intro", "", << >>),
       El(2, "h2", "", "", <<" ", "Intro", " ">>),
       El(2, "p", "", "", <<"Hello">>),
       El(0, "div", "", "card", <<"free">>),
       ElRef(5, "a", <<"more">>, "http://more/"),
       El(0, "script", "", "", <<"alert">>) >>

DocNavOnly ==
    << El(0, "nav", "", "", << >>),
       El(1, "section", "", "card", <<"menu">>),
       El(0, "p", "", "", <<"Hello">>) >>

DocEmpty == << >>

\* the static web: document.title and the elements under body of the page
\* a URL serves
PageAt(u) ==
    IF u = "http://a/" THEN [title |-> "Sections", body |-> DocSections]
    ELSE IF u = "http://new/" THEN [title |-> "Nav", body |-> DocNavOnly]
    ELSE [title |-> "", body |-> DocEmpty]

\* a text is a sequence of characters; " " stands for any whitespace
\* character and every other token for one non-whitespace character
Space == " "

RECURSIVE TrimStart(_)
TrimStart(t) ==
    IF t # << >> /\ Head(t) = Space THEN TrimStart(Tail(t)) ELSE t

RECURSIVE TrimEnd(_)
TrimEnd(t) ==
    IF t # << >> /\ t[Len(t)] = Space THEN TrimEnd(SubSeq(t, 1, Len(t) - 1)) ELSE t

\* String.prototype.trim
Trim(t) == TrimEnd(TrimStart(t))

\* element n lies in the subtree of element a (a = 0 is body)
RECURSIVE IsUnder(_, _, _)
IsUnder(doc, n, a) ==
    IF n = a THEN TRUE
    ELSE IF n = 0 THEN FALSE
    ELSE IsUnder(doc, doc[n].parent, a)

\* a simple selector: a tag name, .class or #id
Matches(el, sel) ==
    \/ sel = el.tag
    \/ el.cls # "" /\ sel = "." \o el.cls
    \/ el.id # "" /\ sel = "#" \o el.id

\* the members of a set of element indices, in document order
RECURSIVE InOrder(_, _)
InOrder(S, from) ==
    IF \A n \in S : n < from THEN << >>
    ELSE IF from \in S THEN <<from>> \o InOrder(S, from + 1)
    ELSE InOrder(S, from + 1)

\* root.querySelectorAll(sel) on the live tree: the proper descendants of
\* root that are still attached and match, in document order
QuerySelectorAll(doc, alive, root, sel) ==
    InOrder({n \in alive : n # root /\ IsUnder(doc, n, root) /\ Matches(doc[n], sel)}, 1)

\* RemoveMatching that detaches the matches only: what lies under them stays
RemoveMatchingShallow(doc, alive, sel) ==
    {n \in alive : ~Matches(doc[n], sel)}

\* elements.forEach(el => el.remove()): the matches leave with their subtrees
RemoveMatching(doc, alive, sel) ==
    LET gone == {n \in alive : Matches(doc[n], sel)}
    IN  {n \in alive : \A g \in gone : ~IsUnder(doc, n, g)}

\* the exclusion loop: every selector in listed order, on the live tree
RECURSIVE RemoveExcluded(_, _, _)
RemoveExcluded(doc, alive, excludeSelectors) ==
    IF excludeSelectors = << >> THEN alive
    ELSE RemoveExcluded(doc, RemoveMatching(doc, alive, Head(excludeSelectors)),
                        Tail(excludeSelectors))


\* node.textContent: the texts of the attached nodes of the subtree, joined
RECURSIVE TextFrom(_, _, _, _)
TextFrom(doc, alive, root, n) ==
    IF n > Len(doc) THEN << >>
    ELSE (IF n \in alive /\ IsUnder(doc, n, root) THEN doc[n].text ELSE << >>)
         \o TextFrom(doc, alive, root, n + 1)

TextContent(doc, alive, root) == TextFrom(doc, alive, root, 1)

\* .map(e => e.textContent.trim()).filter(text => text.length > 0)
RECURSIVE TrimmedTexts(_, _, _)
TrimmedTexts(doc, alive, els) ==
    IF els = << >> THEN << >>
    ELSE LET t == Trim(TextContent(doc, alive, Head(els)))
         IN  (IF Len(t) > 0 THEN <<t>> ELSE << >>)
             \o TrimmedTexts(doc, alive, Tail(els))

HeadingTags == {"h1", "h2", "h3", "h4", "h5", "h6"}

\* data.headings: a key only for the tags that have a non-empty heading
Headings(doc, alive, root) ==
    LET of(tag) == TrimmedTexts(doc, alive, QuerySelectorAll(doc, alive, root, tag))
    IN  [tag \in {t \in HeadingTags : of(t) # << >>} |-> of(tag)]

\* data.links: anchors that have an href, without those of empty text
RECURSIVE Links(_, _, _)
Links(doc, alive, els) ==
    IF els = << >> THEN << >>
    ELSE LET a == Head(els)
             t == Trim(TextContent(doc, alive, a))
         IN  (IF doc[a].ref # "" /\ Len(t) > 0
              THEN << [text |-> t, href |-> doc[a].ref] >> ELSE << >>)
             \o Links(doc, alive, Tail(els))

\* data.lists: ul and ol with their non-empty items, without the empty lists
RECURSIVE Lists(_, _, _)
Lists(doc, alive, els) ==
    IF els = << >> THEN << >>
    ELSE LET l == Head(els)
             items == TrimmedTexts(doc, alive, QuerySelectorAll(doc, alive, l, "li"))
         IN  (IF Len(items) > 0
              THEN << [type |-> doc[l].tag, items |-> items] >> ELSE << >>)
             \o Lists(doc, alive, Tail(els))

\* data.images: img elements that have a src
RECURSIVE Images(_, _, _)
Images(doc, alive, els) ==
    IF els = << >> THEN << >>
    ELSE LET i == Head(els)
         IN  (IF doc[i].ref # ""
              THEN << [src |-> doc[i].ref, alt |-> "", title |-> ""] >> ELSE << >>)
             \o Images(doc, alive, Tail(els))

\* the tags whose text nodes the tree walker of otherText rejects
ExcludedTags == {"p", "a", "li"} \cup HeadingTags

\* data.otherText: the trimmed non-empty text nodes under root whose parent
\* element is not one of the excluded tags, in document order
RECURSIVE OtherText(_, _, _, _)
OtherText(doc, alive, root, n) ==
    IF n > Len(doc) THEN << >>
    ELSE (IF /\ n \in alive /\ IsUnder(doc, n, root)
             /\ doc[n].tag \notin ExcludedTags
             /\ Len(Trim(doc[n].text)) > 0
          THEN << Trim(doc[n].text) >> ELSE << >>)
         \o OtherText(doc, alive, root, n + 1)

\* the elements under root with one of the tags, in document order
WithTags(doc, alive, root, tags) ==
    InOrder({n \in alive : n # root /\ IsUnder(doc, n, root) /\ doc[n].tag \in tags}, 1)

extractFromElement(doc, alive, root) ==
    [ headings   |-> Headings(doc, alive, root),
      paragraphs |-> TrimmedTexts(doc, alive, QuerySelectorAll(doc, alive, root, "p")),
      otherText  |-> OtherText(doc, alive, root, 1),
      links      |-> Links(doc, alive, QuerySelectorAll(doc, alive, root, "a")),
      lists      |-> Lists(doc, alive, WithTags(doc, alive, root, {"ul", "ol"})),
      images     |-> Images(doc, alive, QuerySelectorAll(doc, alive, root, "img")) ]

\* PushNew without the includes test: every match is appended
PushAll(allSections, sections) == allSections \o sections

\* allSections: the matches of every selector in listed order, an element
\* that was collected already is not collected again
RECURSIVE PushNew(_, _)
PushNew(allSections, sections) ==
    IF sections = << >> THEN allSections
    ELSE PushNew(IF \E k \in 1..Len(allSections) : allSections[k] = Head(sections)
                 THEN allSections
                 ELSE Append(allSections, Head(sections)),
                 Tail(sections))

RECURSIVE CollectSections(_, _, _, _)
CollectSections(doc, alive, sectionSelectors, allSections) ==
    IF sectionSelectors = << >> THEN allSections
    ELSE CollectSections(doc, alive, Tail(sectionSelectors),
             PushNew(allSections, QuerySelectorAll(doc, alive, 0, Head(sectionSelectors))))

\* section-<index>, the index counted from 0
SyntheticId(index) == "section-" \o ToString(index)

\* the null of a field that otherwise holds a text
NullText == <<Null>>

\* one entry of result.sections
SectionOf(doc, alive, section, index) ==
    LET hs == WithTags(doc, alive, section, HeadingTags)
        sectionId == IF doc[section].id # "" THEN doc[section].id
                     ELSE IF doc[section].cls # "" THEN doc[section].cls
                     ELSE SyntheticId(index)
        sectionTitle == IF hs # << >> THEN Trim(TextContent(doc, alive, Head(hs)))
                        ELSE NullText
    IN  [id |-> sectionId, title |-> sectionTitle]
        @@ extractFromElement(doc, alive, section)

\* StructuredContent without the branch for no sections: an empty list
StructuredContentEmptySections(doc, title, excludeSelectors, sectionSelectors) ==
    LET alive == RemoveExcluded(doc, 1..Len(doc), excludeSelectors)
        allSections == CollectSections(doc, alive, sectionSelectors, << >>)
    IN  IF Len(sectionSelectors) > 0
        THEN [ title |-> title,
               sections |-> [k \in 1..Len(allSections) |->
                                SectionOf(doc, alive, allSections[k], k - 1)] ]
        ELSE [ title |-> title ] @@ extractFromElement(doc, alive, 0)

\* the value the in-page function of scrapeTextStructured returns
StructuredContent(doc, title, excludeSelectors, sectionSelectors) ==
    LET alive == RemoveExcluded(doc, 1..Len(doc), excludeSelectors)
        allSections == CollectSections(doc, alive, sectionSelectors, << >>)
    IN  IF Len(sectionSelectors) > 0
        THEN IF Len(allSections) > 0
             THEN [ title |-> title,
                    sections |-> [k \in 1..Len(allSections) |->
                                     SectionOf(doc, alive, allSections[k], k - 1)] ]
             ELSE [ error |-> "SECTIONS_NOT_FOUND", selectors |-> sectionSelectors ]
        ELSE [ title |-> title ] @@ extractFromElement(doc, alive, 0)

\* textNodes.join(' ') of the plain-text mode: the trimmed non-empty text
\* nodes under body
RECURSIVE TextNodes(_, _, _)
TextNodes(doc, alive, n) ==
    IF n > Len(doc) THEN << >>
    ELSE (IF n \in alive /\ Len(Trim(doc[n].text)) > 0
          THEN << Trim(doc[n].text) >> ELSE << >>)
         \o TextNodes(doc, alive, n + 1)

RECURSIVE Join(_, _)
Join(texts, sep) ==
    IF texts = << >> THEN << >>
    ELSE IF Len(texts) = 1 THEN Head(texts)
    ELSE Head(texts) \o sep \o Join(Tail(texts), sep)

\* .replace(/\s+/g, ' '): every run of whitespace becomes one space
RECURSIVE CollapseSpaces(_)
CollapseSpaces(t) ==
    IF Len(t) < 2 THEN t
    ELSE IF t[1] = Space /\ t[2] = Space THEN CollapseSpaces(Tail(t))
    ELSE <<t[1]>> \o CollapseSpaces(Tail(t))

\* the value the in-page function of scrapeText returns
TextContentOfBody(doc, alive) ==
    Trim(CollapseSpaces(Join(TextNodes(doc, alive, 1), <<Space>>)))

----------------------------------------------------------------------------
(* Errors *)

\* new RedirectError(status, location, originalUrl)
RedirectError(status, location, originalUrl) ==
    [ name |-> "RedirectError",
      message |-> "Redirection is disallowed. Redirect detected ("
                  \o ToString(status) \o ") to: " \o location,
      redirect |-> TRUE, status |-> status, location |-> location,
      originalUrl |-> originalUrl, timestamp |-> Timestamp ]

RECURSIVE JoinStrings(_, _)
JoinStrings(strs, sep) ==
    IF strs = << >> THEN ""
    ELSE IF Len(strs) = 1 THEN Head(strs)
    ELSE Head(strs) \o sep \o JoinStrings(Tail(strs), sep)

\* new SectionNotFoundError(selectors, url)
SectionNotFoundError(selectors, url) ==
    [ name |-> "SectionNotFoundError",
      message |-> "No sections found with selectors: " \o JoinStrings(selectors, ", "),
      selectors |-> selectors, url |-> url, timestamp |-> Timestamp ]

\* an error the rendering engine or the runtime raises
EngineError(message) == [ name |-> "Error", message |-> message ]

----------------------------------------------------------------------------
(* The options of a WebScraper *)

\* the options objects a WebScraper is constructed with: followRedirects
\* left out, true and false; with and without section selectors, exclude
\* selectors and a ready selector
Given(followRedirects, sectionSelectors, excludeSelectors, waitForSelector) ==
    [ followRedirects |-> followRedirects, sectionSelectors |-> sectionSelectors,
      excludeSelectors |-> excludeSelectors, waitForSelector |-> waitForSelector ]

GivenOptions ==
    { Given("undefined", << >>, <<"script", "nav">>, Null),
      Given("true", <<"section", ".card">>, <<"script", "nav">>, "#ready"),
      Given("false", <<"section", ".card">>, <<"script", "nav">>, "#ready"),
      Given("false", << >>, <<"script", "nav">>, Null),
      Given("false", <<"section", ".card">>, << >>, Null) }

\* WebScraperOptions with followRedirects: options.followRedirects || false
WebScraperOptionsFalsyDefault(given) ==
    [ sectionSelectors |-> given.sectionSelectors,
      waitForSelector  |-> given.waitForSelector,
      excludeSelectors |-> given.excludeSelectors,
      followRedirects  |-> given.followRedirects = "true" ]

\* this.options of the constructor
WebScraperOptions(given) ==
    [ sectionSelectors |-> given.sectionSelectors,
      waitForSelector  |-> given.waitForSelector,
      excludeSelectors |-> given.excludeSelectors,
      followRedirects  |-> given.followRedirects # "false" ]

----------------------------------------------------------------------------
(* State *)

VARIABLES
    given,          \* the options object the WebScraper was constructed with
    options,        \* WebScraper.options
    urls,           \* scrapeUrls: the URL list
    structured,     \* scrapeUrls: options.structured
    batchSize,      \* scrapeUrls: options.batchSize
    pc,             \* where the control flow stands
    i,              \* scrapeUrls: the loop variable, start index of the chunk
    results,        \* scrapeUrls: results
    batch,          \* scrapeUrls: batch = the urls of scrapeMultiplePages
    n,              \* scrapeMultiplePages: position of the for-of loop in urls
    batchResults,   \* scrapeMultiplePages: results
    browser,        \* WebScraper.browser
    context,        \* WebScraper.context
    page,           \* scrape call: page ("none", "open", "closed")
    redirectInfo,   \* scrape call: redirectInfo
    net,            \* the engine: how far the navigation of page.goto is
    responses,      \* the engine: the responses of this page.goto so far
    loaded,         \* the engine: the page the navigation loaded
    alive,          \* the engine: the elements still attached to the document
    sel,            \* scrapeText: position of the exclusion loop
    content,        \* scrape call: textContent / structuredContent
    settled,        \* scrape call: how it ended (returned value, thrown error)
    openPages,      \* the engine: number of pages that are open
    failures,       \* the engine: number of its calls that failed
    extra,          \* the engine: number of responses beyond the first of a goto
    log,            \* the observable events so far, oldest first
    calls,          \* concurrent callers: what each caller of the instance does
    sessions,       \* the engine: the browsers launched and not closed
    launches,       \* the engine: number of browsers launched so far
    file,           \* saveResults: what was written to the output file
    stats,          \* the CLI: the statistics printed after the batch
    config,         \* ConfigurableScraper.config
    preset,         \* ConfigurableScraper: the preset argument
    customOptions,  \* ConfigurableScraper: the customOptions argument
    scraper,        \* ConfigurableScraper.scraper.options
    argv,           \* the unified CLI: the command line it was started with
    bulkOptions     \* handleBulkMode: bulkOptions

vars == << given, options, urls, structured, batchSize, pc, i, results, batch, n,
           batchResults, browser, context, page, redirectInfo, net, responses,
           loaded, alive, sel, content, settled, openPages, failures, extra, log,
           calls, sessions, launches, file, stats, config, preset, customOptions,
           scraper, argv, bulkOptions >>

\* the variables of the unified command line
cliVars == << argv, bulkOptions >>

\* the variables of the operations that are not part of a batch run
aside == << calls, sessions, launches, file, stats, config, preset, customOptions,
            scraper, cliVars >>

\* aside while a batch runs: nothing else is called, written or constructed
AsideIdle ==
    /\ calls = << >>
    /\ sessions = {}
    /\ launches = 0
    /\ file = << >>
    /\ stats = << >>
    /\ config = << >>
    /\ preset = << >>
    /\ customOptions = << >>
    /\ scraper = << >>
    /\ argv = << >>
    /\ bulkOptions = << >>

job == << given, options, urls, structured, batchSize >>
scrapeUrlsVars == << i, results, batch >>
engineVars == << net, responses, loaded, alive >>

\* the URL lists of at most MaxUrls entries
RECURSIVE UrlLists(_)
UrlLists(len) ==
    IF len = 0 THEN { << >> }
    ELSE UrlLists(len - 1)
         \cup { Append(l, u) : l \in { x \in UrlLists(len - 1) : Len(x) = len - 1 },
                               u \in RequestUrls }

\* a local that holds null or an object is << >> or << the object >>
None == << >>
Some(x) == << x >>
The(o) == o[1]

NoNet == [ main |-> "idle", sub |-> "idle" ]

Init ==
    /\ given \in GivenOptions
    /\ options = WebScraperOptions(given)
    /\ urls \in UrlLists(MaxUrls)
    /\ structured \in BOOLEAN
    /\ batchSize \in 1..MaxBatchSize
    /\ pc = "scrapeUrls"
    /\ i = 0
    /\ results = << >>
    /\ batch = << >>
    /\ n = 1
    /\ batchResults = << >>
    /\ browser = Null
    /\ context = Null
    /\ page = "none"
    /\ redirectInfo = None
    /\ net = NoNet
    /\ responses = << >>
    /\ loaded = None
    /\ alive = {}
    /\ sel = 1
    /\ content = None
    /\ settled = None
    /\ openPages = 0
    /\ failures = 0
    /\ extra = 0
    /\ log = << >>
    /\ AsideIdle

----------------------------------------------------------------------------
(* BulkScraper.scrapeUrls *)

Min(a, b) == IF a < b THEN a ELSE b

\* urls.slice(from, to), from and to counted from 0
Slice(list, from, to) == SubSeq(list, from + 1, Min(to, Len(list)))

\* the position in urls of the URL that scrapeMultiplePages is at
Current == i + n

\* the URL of the running scrape call
url == batch[n]

\* NextChunk without the advance of the index
NextChunkStays(from) == from

\* the chunk loop goes on to the next chunk
NextChunk(from) == from + batchSize

\* DelayDue with <= for <: a wait also after a final chunk that is full
DelayDueInclusive == i + batchSize <= Len(urls)

\* the guard of the pause between two chunks
DelayDue == i + batchSize < Len(urls)

\* for (let i = 0; i < urls.length; ...): a chunk starts, its URLs go to
\* scrapeMultiplePages
ChunkStart ==
    /\ pc = "scrapeUrls"
    /\ i < Len(urls)
    /\ batch' = Slice(urls, i, i + batchSize)
    /\ n' = 1
    /\ batchResults' = << >>
    /\ pc' = "forUrl"
    /\ UNCHANGED << job, aside, i, results, browser, context, page, redirectInfo,
                    engineVars, sel, content, settled, openPages, log, failures, extra >>

\* the loop condition fails: return results (outputFile is null)
ScrapeUrlsReturn ==
    /\ pc = "scrapeUrls"
    /\ ~(i < Len(urls))
    /\ pc' = "done"
    /\ UNCHANGED << job, aside, scrapeUrlsVars, n, batchResults, browser, context, page,
                    redirectInfo, engineVars, sel, content, settled, openPages, log, failures, extra >>

\* scrapeMultiplePages returned: results.push(...batchResults), then the
\* delay if another chunk follows
ChunkEnd ==
    /\ pc = "forUrl"
    /\ n > Len(batch)
    /\ results' = results \o batchResults
    /\ IF DelayDue
       THEN pc' = "delay" /\ i' = i
       ELSE pc' = "scrapeUrls" /\ i' = NextChunk(i)
    /\ UNCHANGED << job, aside, batch, n, batchResults, browser, context, page,
                    redirectInfo, engineVars, sel, content, settled, openPages, log, failures, extra >>

\* await new Promise(resolve => setTimeout(resolve, delay)); i += batchSize
Delay ==
    /\ pc = "delay"
    /\ log' = Append(log, [ev |-> "delay", at |-> i])
    /\ i' = NextChunk(i)
    /\ pc' = "scrapeUrls"
    /\ UNCHANGED << job, aside, results, batch, n, batchResults, browser, context, page,
                    redirectInfo, engineVars, sel, content, settled, openPages, failures, extra >>

----------------------------------------------------------------------------
(* WebScraper.scrapeMultiplePages *)

\* the scrape call of the next URL starts: scrapeText or scrapeTextStructured
ForUrl ==
    /\ pc = "forUrl"
    /\ n <= Len(batch)
    /\ log' = Append(log, [ev |-> "scrape", at |-> Current])
    /\ pc' = "init"
    /\ UNCHANGED << job, aside, scrapeUrlsVars, n, batchResults, browser, context, page,
                    redirectInfo, engineVars, sel, content, settled, openPages, failures, extra >>

\* the scrape call is over: its locals are gone
CallEnds ==
    /\ page' = "none"
    /\ redirectInfo' = None
    /\ net' = NoNet
    /\ responses' = << >>
    /\ loaded' = None
    /\ alive' = {}
    /\ sel' = 1
    /\ content' = None
    /\ settled' = None

\* results.push(result) of the try block
PushResult ==
    /\ pc = "settled"
    /\ The(settled).how = "returned"
    /\ batchResults' = Append(batchResults, The(settled).value)
    /\ CallEnds
    /\ pc' = "pause"
    /\ UNCHANGED << job, aside, scrapeUrlsVars, n, browser, context, openPages, log, failures, extra >>

\* the pause after a success, in milliseconds
PauseMs == 1000

\* await new Promise(resolve => setTimeout(resolve, 1000)) after a success
Pause ==
    /\ pc = "pause"
    /\ log' = Append(log, [ev |-> "pause", at |-> Current, ms |-> PauseMs])
    /\ n' = n + 1
    /\ pc' = "forUrl"
    /\ UNCHANGED << job, aside, scrapeUrlsVars, batchResults, browser, context, page,
                    redirectInfo, engineVars, sel, content, settled, openPages, failures, extra >>

\* ErrorEntry with the redirect entry's url taken from the redirect's location
ErrorEntryUrlOfLocation(error, requested) ==
    IF error.name = "RedirectError"
    THEN [ url |-> error.location, redirect |-> TRUE, status |-> error.status,
           location |-> error.location, message |-> error.message,
           timestamp |-> error.timestamp ]
    ELSE IF error.name = "SectionNotFoundError"
    THEN [ url |-> error.url, sectionsNotFound |-> TRUE, selectors |-> error.selectors,
           message |-> error.message, timestamp |-> error.timestamp ]
    ELSE [ url |-> requested, error |-> error.message, timestamp |-> Timestamp ]

\* ErrorEntry with the message of a redirect also under the key error
ErrorEntryRedirectAsError(error, requested) ==
    IF error.name = "RedirectError"
    THEN [ url |-> error.originalUrl, redirect |-> TRUE, status |-> error.status,
           location |-> error.location, message |-> error.message,
           error |-> error.message, timestamp |-> error.timestamp ]
    ELSE IF error.name = "SectionNotFoundError"
    THEN [ url |-> error.url, sectionsNotFound |-> TRUE, selectors |-> error.selectors,
           message |-> error.message, timestamp |-> error.timestamp ]
    ELSE [ url |-> requested, error |-> error.message, timestamp |-> Timestamp ]

\* the entry the catch block pushes for a caught error
ErrorEntry(error, requested) ==
    IF error.name = "RedirectError"
    THEN [ url |-> error.originalUrl, redirect |-> TRUE, status |-> error.status,
           location |-> error.location, message |-> error.message,
           timestamp |-> error.timestamp ]
    ELSE IF error.name = "SectionNotFoundError"
    THEN [ url |-> error.url, sectionsNotFound |-> TRUE, selectors |-> error.selectors,
           message |-> error.message, timestamp |-> error.timestamp ]
    ELSE [ url |-> requested, error |-> error.message, timestamp |-> Timestamp ]

\* CatchError without the try block: the error leaves scrapeMultiplePages
\* and scrapeUrls
CatchErrorPropagates ==
    /\ pc = "settled"
    /\ The(settled).how = "threw"
    /\ CallEnds
    /\ pc' = "done"
    /\ UNCHANGED << job, aside, scrapeUrlsVars, n, batchResults, browser, context, openPages,
                    log, failures, extra >>

\* CatchError with the failed URL tried again instead of recorded
CatchErrorRetries ==
    /\ pc = "settled"
    /\ The(settled).how = "threw"
    /\ CallEnds
    /\ pc' = "forUrl"
    /\ UNCHANGED << job, aside, scrapeUrlsVars, n, batchResults, browser, context, openPages,
                    log, failures, extra >>

\* CatchError with the pause of the try block after the pushed entry
CatchErrorPauses ==
    /\ pc = "settled"
    /\ The(settled).how = "threw"
    /\ batchResults' = Append(batchResults, ErrorEntry(The(settled).value, url))
    /\ CallEnds
    /\ pc' = "pause"
    /\ UNCHANGED << job, aside, scrapeUrlsVars, n, browser, context, openPages, log, failures, extra >>

\* catch (error) { results.push(...) }
CatchError ==
    /\ pc = "settled"
    /\ The(settled).how = "threw"
    /\ batchResults' = Append(batchResults, ErrorEntry(The(settled).value, url))
    /\ CallEnds
    /\ n' = n + 1
    /\ pc' = "forUrl"
    /\ UNCHANGED << job, aside, scrapeUrlsVars, browser, context, openPages, log, failures, extra >>

----------------------------------------------------------------------------
(* WebScraper.init *)

\* a call of the rendering engine fails
EngineFails ==
    /\ failures < MaxFailures
    /\ failures' = failures + 1

\* the call ends by throwing error
Throws(error) ==
    /\ settled' = Some([how |-> "threw", value |-> error])
    /\ pc' = "settled"

\* the call ends by returning value
Returns(value) ==
    /\ settled' = Some([how |-> "returned", value |-> value])
    /\ pc' = "settled"

\* if (this.browser) return;
InitReturnsEarly == browser # Null

\* await this.init(): a browser is there already
InitSkip ==
    /\ pc = "init"
    /\ InitReturnsEarly
    /\ pc' = "newPage"
    /\ UNCHANGED << job, aside, scrapeUrlsVars, n, batchResults, browser, context, page,
                    redirectInfo, engineVars, sel, content, settled, openPages, log, failures, extra >>

\* this.browser = await <browserType>.launch(browserOptions)
Launch ==
    /\ pc = "init"
    /\ ~InitReturnsEarly
    /\ \/ /\ browser' = "open"
          /\ pc' = "newContext"
          /\ UNCHANGED << settled, failures >>
       \/ /\ EngineFails
          /\ Throws(EngineError(MsgLaunch))
          /\ UNCHANGED browser
    /\ UNCHANGED << job, aside, scrapeUrlsVars, n, batchResults, context, page, redirectInfo,
                    engineVars, sel, content, openPages, log, extra >>

\* this.context = await this.browser.newContext(...)
NewContext ==
    /\ pc = "newContext"
    /\ \/ /\ context' = "open"
          /\ pc' = "newPage"
          /\ UNCHANGED << settled, failures >>
       \/ /\ EngineFails
          /\ Throws(EngineError(MsgNewContext))
          /\ UNCHANGED context
    /\ UNCHANGED << job, aside, scrapeUrlsVars, n, batchResults, browser, page, redirectInfo,
                    engineVars, sel, content, openPages, log, extra >>

----------------------------------------------------------------------------
(* WebScraper.scrapeText and WebScraper.scrapeTextStructured: up to the     *)
(* extraction both run the same statements                                 *)

\* const page = await this.context.newPage(); the statements up to the call
\* of page.goto(url) follow without an await
NewPage ==
    /\ pc = "newPage"
    /\ \/ /\ context = Null
          /\ Throws(EngineError(MsgNullContext))
          /\ UNCHANGED << page, openPages, net, log, failures >>
       \/ /\ context # Null
          /\ page' = "open"
          /\ openPages' = openPages + 1
          /\ net' = [main |-> "request", sub |-> "idle"]
          /\ log' = Append(log, [ev |-> "goto", at |-> Current])
          /\ pc' = "goto"
          /\ UNCHANGED << settled, failures >>
       \/ /\ context # Null
          /\ EngineFails
          /\ Throws(EngineError(MsgNewPage))
          /\ UNCHANGED << page, openPages, net, log >>
    /\ UNCHANGED << job, aside, scrapeUrlsVars, n, batchResults, browser, context,
                    redirectInfo, responses, loaded, alive, sel, content, extra >>

IsRedirectStatus(status) == status \in {301, 302, 303, 307, 308}

\* the responses the engine may deliver next while page.goto(url) is pending.
\* main: the response belongs to the request chain of the navigation.
\* A chain goes on after a redirect status that carries a Location header.
NextResponses ==
    LET answers(at, from, main, to) ==
            { [ url |-> at, redirectedFrom |-> from, status |-> st,
                location |-> loc, main |-> main ] :
              st \in StatusesAt(at), loc \in {"", to} }
        real(rs) == { r \in rs : r.location = "" \/ IsRedirectStatus(r.status) }
    IN  IF net.main = "request"
        THEN real(answers(BrowserUrl(url), FALSE, TRUE, RedirectTarget))
        ELSE IF net.main = "redirected"
        THEN real(answers(RedirectTarget, TRUE, TRUE, RedirectTarget))
        ELSE IF net.sub = "idle"
        THEN real(answers(SubResourceUrl, FALSE, FALSE, SubResourceTarget))
        ELSE real(answers(SubResourceTarget, TRUE, FALSE, SubResourceTarget))

ChainGoesOn(r) == IsRedirectStatus(r.status) /\ r.location # ""

\* how far the navigation is after response r
NetAfter(r) ==
    IF r.main
    THEN [net EXCEPT !.main = IF ChainGoesOn(r) THEN "redirected" ELSE "loaded"]
    ELSE [net EXCEPT !.sub = IF ChainGoesOn(r) THEN "redirected" ELSE "idle"]

\* the condition under which the listener looks at the status of a response
ListenerSees(r) == r.url = url \/ r.redirectedFrom

\* OnResponse with the first captured redirect kept
OnResponseKeepsFirst(info, r) ==
    IF info # None THEN info
    ELSE IF ListenerSees(r) /\ IsRedirectStatus(r.status)
    THEN Some([ status |-> r.status,
                location |-> IF r.location # "" THEN r.location ELSE r.url,
                url |-> r.url ])
    ELSE info

\* page.on('response', ...): redirectInfo after the listener ran on r
OnResponse(info, r) ==
    IF ListenerSees(r) /\ IsRedirectStatus(r.status)
    THEN Some([ status |-> r.status,
                location |-> IF r.location # "" THEN r.location ELSE r.url,
                url |-> r.url ])
    ELSE info

\* the listener is registered only if (!this.options.followRedirects)
ListenerRegistered == ~options.followRedirects

\* a string that is not a URL the engine can navigate to
Malformed(u) == u = MalformedUrl

\* a response arrives while page.goto is pending
Response ==
    /\ pc = "goto"
    /\ ~Malformed(url)
    /\ responses # << >> => extra < MaxExtraResponses
    /\ extra' = IF responses = << >> THEN extra ELSE extra + 1
    /\ \E r \in NextResponses :
          /\ r.main /\ ChainGoesOn(r) => extra' < MaxExtraResponses
          /\ responses' = Append(responses, r)
          /\ net' = NetAfter(r)
          /\ redirectInfo' = IF ListenerRegistered THEN OnResponse(redirectInfo, r)
                             ELSE redirectInfo
    /\ UNCHANGED << job, aside, scrapeUrlsVars, n, batchResults, browser, context, page, pc,
                    loaded, alive, sel, content, settled, openPages, log, failures >>

\* the last response of the request chain of the navigation
RECURSIVE LastMain(_)
LastMain(rs) ==
    IF rs[Len(rs)].main THEN rs[Len(rs)] ELSE LastMain(SubSeq(rs, 1, Len(rs) - 1))

\* the page the navigation ended on
Landed == PageAt(LastMain(responses).url)

\* await page.goto(url, { waitUntil: 'networkidle' }) resolves
GotoResolves ==
    /\ pc = "goto"
    /\ net.main = "loaded"
    /\ loaded' = Some(Landed)
    /\ alive' = 1..Len(Landed.body)
    /\ pc' = "afterGoto"
    /\ UNCHANGED << job, aside, scrapeUrlsVars, n, batchResults, browser, context, page,
                    redirectInfo, net, responses, sel, content, settled, openPages, log, failures, extra >>

\* await page.goto(...) rejects: the error leaves through catch { throw error }
GotoRejects ==
    /\ pc = "goto"
    /\ EngineFails
    /\ Throws(EngineError(MsgGoto))
    /\ UNCHANGED << job, aside, scrapeUrlsVars, n, batchResults, browser, context, page,
                    redirectInfo, engineVars, sel, content, openPages, log, extra >>

\* await page.goto(...) rejects at once: the engine cannot navigate to the
\* string it was given
GotoRejectsInvalid ==
    /\ pc = "goto"
    /\ Malformed(url)
    /\ Throws(EngineError(MsgInvalidUrl))
    /\ UNCHANGED << job, aside, scrapeUrlsVars, n, batchResults, browser, context, page,
                    redirectInfo, engineVars, sel, content, openPages, log, failures,
                    extra >>

\* if (!this.options.followRedirects && redirectInfo)
RedirectDetected == ~options.followRedirects /\ redirectInfo # None

\* page.close()
ClosePage ==
    /\ page' = "closed"
    /\ openPages' = openPages - 1

\* AfterGoto without the page.close() of the redirect branch
AfterGotoKeepsPage ==
    /\ pc = "afterGoto"
    /\ pc' = IF RedirectDetected THEN "throwRedirect"
             ELSE IF options.waitForSelector # Null THEN "waitForSelector"
             ELSE IF structured THEN "evaluate" ELSE "exclude"
    /\ UNCHANGED << job, aside, scrapeUrlsVars, n, batchResults, browser, context, page,
                    openPages, redirectInfo, engineVars, sel, content, settled, log,
                    failures, extra >>

\* the statements after page.goto resolved: await page.close() of the
\* redirect branch, or on to the ready selector and the extraction
AfterGoto ==
    /\ pc = "afterGoto"
    /\ IF RedirectDetected
       THEN ClosePage /\ pc' = "throwRedirect"
       ELSE /\ pc' = IF options.waitForSelector # Null THEN "waitForSelector"
                     ELSE IF structured THEN "evaluate" ELSE "exclude"
            /\ UNCHANGED << page, openPages >>
    /\ UNCHANGED << job, aside, scrapeUrlsVars, n, batchResults, browser, context,
                    redirectInfo, engineVars, sel, content, settled, log, failures, extra >>

\* throw new RedirectError(redirectInfo.status, redirectInfo.location, url)
ThrowRedirect ==
    /\ pc = "throwRedirect"
    /\ Throws(RedirectError(The(redirectInfo).status, The(redirectInfo).location, url))
    /\ UNCHANGED << job, aside, scrapeUrlsVars, n, batchResults, browser, context, page,
                    redirectInfo, engineVars, sel, content, openPages, log, failures, extra >>

\* await page.waitForSelector(this.options.waitForSelector)
WaitForSelector ==
    /\ pc = "waitForSelector"
    /\ \/ /\ pc' = IF structured THEN "evaluate" ELSE "exclude"
          /\ UNCHANGED << settled, failures >>
       \/ /\ EngineFails
          /\ Throws(EngineError(MsgWaitTimeout))
    /\ UNCHANGED << job, aside, scrapeUrlsVars, n, batchResults, browser, context, page,
                    redirectInfo, engineVars, sel, content, openPages, log, extra >>

----------------------------------------------------------------------------
(* WebScraper.scrapeTextStructured: the extraction *)

\* Evaluate with the exclude selectors used up by the first call of a
\* chunk: the later calls of the chunk exclude nothing
EvaluateSelectorsUsedUp ==
    /\ pc = "evaluate"
    /\ \/ /\ content' = Some(StructuredContent(The(loaded).body, The(loaded).title,
                                 IF n = 1 THEN options.excludeSelectors ELSE << >>,
                                 options.sectionSelectors))
          /\ alive' = RemoveExcluded(The(loaded).body, alive, options.excludeSelectors)
          /\ pc' = "afterEvaluate"
          /\ UNCHANGED << settled, failures >>
       \/ /\ EngineFails
          /\ Throws(EngineError(MsgEvaluate))
          /\ UNCHANGED << content, alive >>
    /\ UNCHANGED << job, aside, scrapeUrlsVars, n, batchResults, browser, context, page,
                    redirectInfo, net, responses, loaded, sel, openPages, log, extra >>

\* const structuredContent = await page.evaluate(...)
Evaluate ==
    /\ pc = "evaluate"
    /\ \/ /\ content' = Some(StructuredContent(The(loaded).body, The(loaded).title,
                                 options.excludeSelectors, options.sectionSelectors))
          /\ alive' = RemoveExcluded(The(loaded).body, alive, options.excludeSelectors)
          /\ pc' = "afterEvaluate"
          /\ UNCHANGED << settled, failures >>
       \/ /\ EngineFails
          /\ Throws(EngineError(MsgEvaluate))
          /\ UNCHANGED << content, alive >>
    /\ UNCHANGED << job, aside, scrapeUrlsVars, n, batchResults, browser, context, page,
                    redirectInfo, net, responses, loaded, sel, openPages, log, extra >>

\* if (structuredContent.error === 'SECTIONS_NOT_FOUND')
SectionsNotFound(structuredContent) ==
    "error" \in DOMAIN structuredContent /\ structuredContent.error = "SECTIONS_NOT_FOUND"

\* await page.close() of either branch after the extraction
AfterEvaluate ==
    /\ pc = "afterEvaluate"
    /\ ClosePage
    /\ pc' = IF SectionsNotFound(The(content)) THEN "throwSectionNotFound"
             ELSE "returnStructured"
    /\ UNCHANGED << job, aside, scrapeUrlsVars, n, batchResults, browser, context,
                    redirectInfo, engineVars, sel, content, settled, log, failures, extra >>

\* throw new SectionNotFoundError(structuredContent.selectors, url)
ThrowSectionNotFound ==
    /\ pc = "throwSectionNotFound"
    /\ Throws(SectionNotFoundError(The(content).selectors, url))
    /\ UNCHANGED << job, aside, scrapeUrlsVars, n, batchResults, browser, context, page,
                    redirectInfo, engineVars, sel, content, openPages, log, failures, extra >>

\* return { url, ...structuredContent, timestamp }
StructuredResult(requested, structuredContent) ==
    [url |-> requested] @@ structuredContent @@ [timestamp |-> Timestamp]

ReturnStructured ==
    /\ pc = "returnStructured"
    /\ Returns(StructuredResult(url, The(content)))
    /\ UNCHANGED << job, aside, scrapeUrlsVars, n, batchResults, browser, context, page,
                    redirectInfo, engineVars, sel, content, openPages, log, failures, extra >>

----------------------------------------------------------------------------
(* WebScraper.scrapeText: the extraction *)

\* one round of for (const selector of this.options.excludeSelectors)
Exclude ==
    /\ pc = "exclude"
    /\ sel <= Len(options.excludeSelectors)
    /\ \/ /\ alive' = RemoveMatching(The(loaded).body, alive, options.excludeSelectors[sel])
          /\ sel' = sel + 1
          /\ UNCHANGED << pc, settled, failures >>
       \/ /\ EngineFails
          /\ Throws(EngineError(MsgEvaluate))
          /\ UNCHANGED << alive, sel >>
    /\ UNCHANGED << job, aside, scrapeUrlsVars, n, batchResults, browser, context, page,
                    redirectInfo, net, responses, loaded, content, openPages, log, extra >>

\* const textContent = await page.evaluate(...)
ExtractText ==
    /\ pc = "exclude"
    /\ sel > Len(options.excludeSelectors)
    /\ \/ /\ content' = Some(TextContentOfBody(The(loaded).body, alive))
          /\ pc' = "closeText"
          /\ UNCHANGED << settled, failures >>
       \/ /\ EngineFails
          /\ Throws(EngineError(MsgEvaluate))
          /\ UNCHANGED content
    /\ UNCHANGED << job, aside, scrapeUrlsVars, n, batchResults, browser, context, page,
                    redirectInfo, engineVars, sel, openPages, log, extra >>

\* return { url, text: textContent, length: textContent.length, timestamp }
TextResult(requested, textContent) ==
    [ url |-> requested, text |-> textContent, length |-> Len(textContent),
      timestamp |-> Timestamp ]

\* await page.close(); return ...
ReturnText ==
    /\ pc = "closeText"
    /\ ClosePage
    /\ Returns(TextResult(url, The(content)))
    /\ UNCHANGED << job, aside, scrapeUrlsVars, n, batchResults, browser, context,
                    redirectInfo, engineVars, sel, content, log, failures, extra >>

----------------------------------------------------------------------------
(* The specification *)

Next ==
    \/ ChunkStart \/ ScrapeUrlsReturn \/ ChunkEnd \/ Delay
    \/ ForUrl \/ PushResult \/ Pause \/ CatchError
    \/ InitSkip \/ Launch \/ NewContext
    \/ NewPage \/ Response \/ GotoResolves \/ GotoRejects
    \/ AfterGoto \/ ThrowRedirect \/ WaitForSelector
    \/ Evaluate \/ AfterEvaluate \/ ThrowSectionNotFound \/ ReturnStructured
    \/ Exclude \/ ExtractText \/ ReturnText

Spec == Init /\ [][Next]_vars

----------------------------------------------------------------------------
(* Observations the properties are stated with *)

\* the run of scrapeUrls is over
Done == pc = "done"

\* the entries pushed so far, those of the running chunk included
Entries == IF pc \in {"scrapeUrls", "delay", "done"} THEN results
           ELSE results \o batchResults

\* the kinds of an entry of a batch result
IsRedirectEntry(e) == "redirect" \in DOMAIN e
IsSectionsNotFoundEntry(e) == "sectionsNotFound" \in DOMAIN e
IsErrorEntry(e) == "error" \in DOMAIN e
IsSuccessEntry(e) == ~IsRedirectEntry(e) /\ ~IsSectionsNotFoundEntry(e) /\ ~IsErrorEntry(e)

\* how often an event was logged for the URL at position j of urls
Count(ev, j) == Cardinality({p \in 1..Len(log) : log[p].ev = ev /\ log[p].at = j})

\* the positions of the log that hold an event
Positions(ev) == {p \in 1..Len(log) : log[p].ev = ev}

\* the running scrape call has ended and its outcome is not yet consumed
Settled == pc = "settled"
Threw(name) == Settled /\ The(settled).how = "threw" /\ The(settled).value.name = name
Returned == Settled /\ The(settled).how = "returned"

\* the responses of the running navigation that belong to the navigation's
\* own request chain and carry a redirect status
MainRedirects == {k \in 1..Len(responses) :
                     responses[k].main /\ IsRedirectStatus(responses[k].status)}

\* the Location header of a response, else the response's own URL
LocationOf(r) == IF r.location # "" THEN r.location ELSE r.url

----------------------------------------------------------------------------
(* C1 *)

\* C1: the list scrapeUrls returns, and the list every scrapeMultiplePages
\* call returns, has one entry per input URL and entry j is the outcome of
\* input URL j (its url field is urls[j]), whatever the outcomes were.
C1_OneEntryPerUrlInOrder ==
    /\ \A j \in 1..Len(Entries) : j <= Len(urls) /\ Entries[j].url = urls[j]
    /\ Done => Len(results) = Len(urls)
    /\ (pc = "forUrl" /\ n > Len(batch)) =>
          /\ Len(batchResults) = Len(batch)
          /\ \A j \in 1..Len(batch) : batchResults[j].url = batch[j]

\* a finished batch of three URLs that holds a success, a redirect entry and
\* an error entry
C1_Witness ==
    /\ Done /\ Len(urls) = 3
    /\ \E j \in 1..3 : IsSuccessEntry(results[j])
    /\ \E j \in 1..3 : IsRedirectEntry(results[j])
    /\ \E j \in 1..3 : IsErrorEntry(results[j])

----------------------------------------------------------------------------
(* C2 *)

\* C2: a failure of any kind on one URL is recorded as that URL's entry and
\* does not stop the batch: once the run is over, every URL after a failed
\* one had its scrape call and has its entry, in its chunk and in the later
\* chunks; and the step after a caught error is the next URL of the loop.
C2_FailureDoesNotStopBatch ==
    /\ Done =>
          \A j \in 1..Len(urls) :
              /\ j <= Len(results)
              /\ ~IsSuccessEntry(results[j]) =>
                    \A k \in (j + 1)..Len(urls) :
                        Count("scrape", k) = 1 /\ k <= Len(results)
    /\ \A j \in 1..Len(Entries) : Count("scrape", j) = 1

\* a finished batch of two chunks whose first URL failed and whose last URL,
\* in the later chunk, succeeded
C2_Witness ==
    /\ Done /\ Len(urls) = 3 /\ batchSize = 2
    /\ IsErrorEntry(results[1])
    /\ IsSuccessEntry(results[2])
    /\ IsSuccessEntry(results[3])

----------------------------------------------------------------------------
(* C3 *)

\* C3: every page a scrape call acquired is closed when the call has
\* returned or thrown, so no page is open between two calls and at most one
\* page is open at any time.
C3_PageAlwaysReleased ==
    /\ Settled => page # "open"
    /\ pc \in {"scrapeUrls", "forUrl", "pause", "delay", "done"} => openPages = 0
    /\ openPages <= 1

----------------------------------------------------------------------------
(* C4 *)

BeforeNavigation == {MsgLaunch, MsgNewContext, MsgNullContext, MsgNewPage}

----------------------------------------------------------------------------
(* C5 *)

Ceil(a, b) == (a + b - 1) \div b

\* the scrape calls that started before position p of the log
ScrapedBefore(p) == {log[q].at : q \in {x \in Positions("scrape") : x < p}}

\* C5: scrapeUrls waits the inter-chunk delay ceil(n/b) - 1 times (0 times
\* for the empty list); every wait comes after the last request of a full
\* chunk and before the first request of the next chunk; none follows the
\* final chunk.
C5_DelaysBetweenChunks ==
    /\ \A p \in Positions("delay") :
          LET before == ScrapedBefore(p)
              m == Cardinality(before)
          IN  /\ before = 1..m
              /\ m > 0 /\ m % batchSize = 0 /\ m < Len(urls)
              /\ \A q \in Positions("delay") : q < p => ~(ScrapedBefore(q) = before)
              /\ (p < Len(log)) => log[p + 1] = [ev |-> "scrape", at |-> m + 1]
    /\ Done =>
          /\ Cardinality(Positions("delay")) =
                IF Len(urls) = 0 THEN 0 ELSE Ceil(Len(urls), batchSize) - 1
          /\ log # << >> => log[Len(log)].ev # "delay"

\* a finished batch of three URLs in chunks of two: one wait, after the
\* second URL, and none after the shorter final chunk
C5_Witness ==
    /\ Done /\ Len(urls) = 3 /\ batchSize = 2
    /\ Cardinality(Positions("delay")) = 1

----------------------------------------------------------------------------
(* C6 *)

\* no element still attached to the loaded document matches a section selector
NoSectionMatches ==
    \A k \in 1..Len(options.sectionSelectors) :
        \A e \in alive : ~Matches(The(loaded).body[e], options.sectionSelectors[k])

\* the in-page extraction of scrapeTextStructured ran on the loaded document
ExtractionRan == structured /\ Settled /\ content # None

\* C6: with section selectors configured and no element of the document
\* (after the exclusions) matching any of them, scrapeTextStructured never
\* returns a result, with or without a sections list; it throws the
\* SectionNotFoundError that carries the configured selectors and the
\* requested URL.
C6_NoMatchIsSectionsNotFound ==
    /\ (ExtractionRan /\ Len(options.sectionSelectors) > 0 /\ NoSectionMatches) =>
          /\ Threw("SectionNotFoundError")
          /\ The(settled).value.selectors = options.sectionSelectors
          /\ The(settled).value.url = url
    /\ (structured /\ Returned /\ Len(options.sectionSelectors) > 0) =>
          /\ ~NoSectionMatches
          /\ "sections" \in DOMAIN The(settled).value
          /\ Len(The(settled).value.sections) > 0

\* the document had an element that matches a section selector, it went
\* with an excluded subtree, and the call threw SectionNotFoundError
C6_Witness ==
    /\ Threw("SectionNotFoundError")
    /\ The(loaded).body = DocNavOnly
    /\ options.excludeSelectors # << >>

----------------------------------------------------------------------------
(* C7 *)

\* C7: followRedirects is true whenever the caller did not pass false, and
\* then no scrape call ends with the redirect outcome, whatever the
\* responses were: nothing is captured, the page is not closed after the
\* navigation, and the call goes on to the ready selector and the
\* extraction on the page the navigation ended on.
C7_RedirectsFollowedByDefault ==
    given.followRedirects # "false" =>
        /\ options.followRedirects
        /\ redirectInfo = None
        /\ pc # "throwRedirect"
        /\ ~Threw("RedirectError")
        /\ \A j \in 1..Len(Entries) : ~IsRedirectEntry(Entries[j])
        /\ pc \in {"waitForSelector", "evaluate", "exclude"} =>
              /\ page = "open"
              /\ The(loaded) = PageAt(LastMain(responses).url)

\* followRedirects was left out, the navigation went through a redirect and
\* the call returned the content of the destination
C7_Witness ==
    /\ given.followRedirects = "undefined"
    /\ MainRedirects # {}
    /\ Returned
    /\ The(loaded) = PageAt(RedirectTarget)

----------------------------------------------------------------------------
(* C8 *)

\* C8: with followRedirects false, a navigation whose own request chain
\* holds a response with a redirect status ends the call with the
\* RedirectError that carries the status and the location (Location header,
\* else the response's URL) of such a response and the requested URL.
C8_RedirectIsReported ==
    (Settled /\ ~options.followRedirects /\ MainRedirects # {}) =>
        /\ Threw("RedirectError")
        /\ The(settled).value.originalUrl = url
        /\ \E k \in MainRedirects :
              /\ The(settled).value.status = responses[k].status
              /\ The(settled).value.location = LocationOf(responses[k])

----------------------------------------------------------------------------
(* C9 *)

----------------------------------------------------------------------------
(* C10 *)

\* C10: with followRedirects false, a RedirectError is thrown only when a
\* response of the navigation's own request chain has a redirect status; a
\* redirect response of another request of the page never causes it.
C10_OnlyNavigationRedirects ==
    Threw("RedirectError") => MainRedirects # {}

----------------------------------------------------------------------------
(* C11 *)

\* the ready-selector wait of the running call timed out
WaitTimedOut(error) == error.name = "Error" /\ error.message = MsgWaitTimeout

\* C11: when the configured ready selector does not appear in time, the call
\* throws an error of the selector-timeout kind (SelectorTimeoutError) that
\* carries the selector, and a batch never records that URL with an entry
\* of the generic error kind.
C11_SelectorTimeoutIsItsOwnKind ==
    /\ \A j \in 1..Len(Entries) :
          ~(IsErrorEntry(Entries[j]) /\ Entries[j].error = MsgWaitTimeout)
    /\ (Settled /\ The(settled).how = "threw") =>
          ~WaitTimedOut(The(settled).value)

----------------------------------------------------------------------------
(* C12 *)

\* the messages of the failures of init
InitFailures == {MsgLaunch, MsgNewContext}

\* C12: a failure of the browser launch or of the context creation ends the
\* whole batch: it is never recorded as the error entry of one URL.
C12_LaunchFailureIsFatal ==
    \A j \in 1..Len(Entries) :
        ~(IsErrorEntry(Entries[j]) /\ Entries[j].error \in InitFailures)

----------------------------------------------------------------------------
(* Concurrent calls on one WebScraper.  A caller that does not await the   *)
(* previous call (Promise.all over scrape calls, a close() while a scrape  *)
(* runs) interleaves with it at every await of init and close.             *)

\* the number of callers that use the instance at the same time
MaxCallers == 2
\* the most browsers the engine launches during one run
MaxLaunches == 3

Callers == 1..MaxCallers

\* the variables of a batch run that the concurrent callers leave alone
batchVars == << given, options, urls, structured, batchSize, pc, i, results, batch,
                n, batchResults, page, redirectInfo, net, responses, loaded, alive,
                sel, content, settled, openPages, extra, log >>

\* no batch runs: the state of these variables after construction
NoBatch ==
    /\ given = Given("undefined", << >>, <<"script", "nav">>, Null)
    /\ options = WebScraperOptions(given)
    /\ urls = << >>
    /\ structured = FALSE
    /\ batchSize = 1
    /\ pc = "none"
    /\ i = 0
    /\ results = << >>
    /\ batch = << >>
    /\ n = 1
    /\ batchResults = << >>
    /\ page = "none"
    /\ redirectInfo = None
    /\ net = NoNet
    /\ responses = << >>
    /\ loaded = None
    /\ alive = {}
    /\ sel = 1
    /\ content = None
    /\ settled = None
    /\ openPages = 0
    /\ extra = 0
    /\ log = << >>

\* a caller that is not inside a call
Idle == [ at |-> "idle", on |-> Null ]

SessionsInit ==
    /\ NoBatch
    /\ browser = Null
    /\ context = Null
    /\ failures = 0
    /\ calls = [c \in Callers |-> Idle]
    /\ sessions = {}
    /\ launches = 0
    /\ file = << >>
    /\ stats = << >>
    /\ config = << >>
    /\ preset = << >>
    /\ customOptions = << >>
    /\ scraper = << >>
    /\ argv = << >>
    /\ bulkOptions = << >>

\* the browser the k-th launch creates, and the context created in a browser
BrowserOf(k) == "browser-" \o ToString(k)
ContextOf(b) == "context of " \o b

sessionsRest == << batchVars, file, stats, config, preset, customOptions, scraper,
                  cliVars >>

\* a scrape call starts: await this.init().  if (this.browser) return; else
\* the launch is called and init waits for it
CallInit(c) ==
    /\ calls[c].at = "idle"
    /\ IF InitReturnsEarly
       THEN calls' = [calls EXCEPT ![c] = [at |-> "newPage", on |-> Null]]
       ELSE /\ launches + Cardinality({d \in Callers : calls[d].at = "launch"})
                  < MaxLaunches
            /\ calls' = [calls EXCEPT ![c] = [at |-> "launch", on |-> Null]]
    /\ UNCHANGED << browser, context, failures, sessions, launches, sessionsRest >>

\* this.browser = await <browserType>.launch(...) resolves; the call of
\* this.browser.newContext(...) follows without an await
LaunchResolves(c) ==
    /\ calls[c].at = "launch"
    /\ launches' = launches + 1
    /\ sessions' = sessions \cup {BrowserOf(launches')}
    /\ browser' = BrowserOf(launches')
    /\ calls' = [calls EXCEPT ![c] = [at |-> "newContext", on |-> browser']]
    /\ UNCHANGED << context, failures, sessionsRest >>

\* the launch rejects: init and the scrape call throw
LaunchRejects(c) ==
    /\ calls[c].at = "launch"
    /\ EngineFails
    /\ calls' = [calls EXCEPT ![c] = Idle]
    /\ UNCHANGED << browser, context, sessions, launches, sessionsRest >>

\* this.context = await this.browser.newContext(...) resolves: init returns
ContextResolves(c) ==
    /\ calls[c].at = "newContext"
    /\ context' = ContextOf(calls[c].on)
    /\ calls' = [calls EXCEPT ![c] = [at |-> "newPage", on |-> Null]]
    /\ UNCHANGED << browser, failures, sessions, launches, sessionsRest >>

\* the rest of the scrape call, from this.context.newPage() to its end
ScrapeEnds(c) ==
    /\ calls[c].at = "newPage"
    /\ calls' = [calls EXCEPT ![c] = Idle]
    /\ UNCHANGED << browser, context, failures, sessions, launches, sessionsRest >>

\* close() is called: if (this.browser) await this.browser.close(); with no
\* browser the call returns at once
CallClose(c) ==
    /\ calls[c].at = "idle"
    /\ IF browser # Null
       THEN calls' = [calls EXCEPT ![c] = [at |-> "closing", on |-> browser]]
       ELSE calls' = [calls EXCEPT ![c] = [at |-> "closed", on |-> Null]]
    /\ UNCHANGED << browser, context, failures, sessions, launches, sessionsRest >>

\* browser.close() resolves and the fields are kept
CloseResolvesKeepsBrowser(c) ==
    /\ calls[c].at = "closing"
    /\ sessions' = sessions \ {calls[c].on}
    /\ calls' = [calls EXCEPT ![c] = [at |-> "closed", on |-> calls[c].on]]
    /\ UNCHANGED << browser, context, failures, launches, sessionsRest >>

\* browser.close() resolves; this.browser = null; this.context = null
CloseResolves(c) ==
    /\ calls[c].at = "closing"
    /\ sessions' = sessions \ {calls[c].on}
    /\ browser' = Null
    /\ context' = Null
    /\ calls' = [calls EXCEPT ![c] = [at |-> "closed", on |-> calls[c].on]]
    /\ UNCHANGED << failures, launches, sessionsRest >>

\* the caller of close() resumes after its await
CloseReturns(c) ==
    /\ calls[c].at = "closed"
    /\ calls' = [calls EXCEPT ![c] = Idle]
    /\ UNCHANGED << browser, context, failures, sessions, launches, sessionsRest >>

SessionsNext ==
    \E c \in Callers :
        \/ CallInit(c) \/ LaunchResolves(c) \/ LaunchRejects(c)
        \/ ContextResolves(c) \/ ScrapeEnds(c)
        \/ CallClose(c) \/ CloseResolves(c) \/ CloseReturns(c)

SpecSessions == SessionsInit /\ [][SessionsNext]_vars

----------------------------------------------------------------------------
(* C13 *)

\* C13: whatever the interleaving of the calls on one instance, at most one
\* launched browser exists at a time and every launched browser is the one
\* the instance holds in this.browser.
C13_OneSessionOwned ==
    /\ Cardinality(sessions) <= 1
    /\ \A s \in sessions : browser = s

----------------------------------------------------------------------------
(* What is done with the results of a batch: saveResults of                *)
(* BulkScraper.scrapeUrls and the statistics the command lines print.      *)

\* the longest list of results that is written or counted
MaxResults == 3

\* outcomes as scrapeMultiplePages records them in one mode: a text of a
\* page and of an empty page, or a structured content; and one entry per
\* failure kind of the mode
Outcomes(inStructured) ==
    { ErrorEntry(RedirectError(302, RedirectTarget, "http://b/"), "http://b/"),
      ErrorEntry(EngineError(MsgGoto), "http://a") }
    \cup IF inStructured
         THEN { StructuredResult("http://a/",
                    StructuredContent(DocSections, "Sections", <<"script", "nav">>, << >>)),
                ErrorEntry(SectionNotFoundError(<<"section", ".card">>, "http://a/"),
                           "http://a/") }
         ELSE { TextResult("http://b/", <<"Hello">>),
                TextResult("http://b/", TextContentOfBody(DocEmpty, {})) }

\* the result lists of at most len entries
RECURSIVE ResultLists(_, _)
ResultLists(len, inStructured) ==
    IF len = 0 THEN { << >> }
    ELSE ResultLists(len - 1, inStructured)
         \cup { Append(l, o) :
                  l \in { x \in ResultLists(len - 1, inStructured) : Len(x) = len - 1 },
                  o \in Outcomes(inStructured) }

\* the chunk loop of scrapeUrls has ended with these results
OutputInit ==
    /\ given = Given("undefined", << >>, <<"script", "nav">>, Null)
    /\ options = WebScraperOptions(given)
    /\ structured \in BOOLEAN
    /\ results \in ResultLists(MaxResults, structured)
    /\ urls = [j \in 1..Len(results) |-> results[j].url]
    /\ batchSize = 1
    /\ pc = "scrapeUrls"
    /\ i = Len(urls)
    /\ batch = << >>
    /\ n = 1
    /\ batchResults = << >>
    /\ browser = Null
    /\ context = Null
    /\ page = "none"
    /\ redirectInfo = None
    /\ net = NoNet
    /\ responses = << >>
    /\ loaded = None
    /\ alive = {}
    /\ sel = 1
    /\ content = None
    /\ settled = None
    /\ openPages = 0
    /\ failures = 0
    /\ extra = 0
    /\ log = << >>
    /\ AsideIdle

\* the JS truthiness of result[key] for a key that holds a string
Truthy(result, key) == key \in DOMAIN result /\ result[key] # ""

\* result[key] || ''
OrEmpty(result, key) == IF Truthy(result, key) THEN result[key] ELSE ""

\* `"${value}"`
Quoted(value) == "\"" \o value \o "\""

\* the line break of the written text
NewLine == "\n"

\* result.length || result.text?.length || 0
LengthCell(result) ==
    IF "length" \in DOMAIN result /\ result.length # 0 THEN result.length
    ELSE IF "text" \in DOMAIN result /\ Len(result.text) # 0 THEN Len(result.text)
    ELSE 0

CsvHeaders == << "url", "success", "text_length", "title", "error", "timestamp" >>

\* one row of resultsToCSV, as the cells that row.join(',') joins
CsvRow(result) ==
    << Quoted(OrEmpty(result, "url")),
       IF Truthy(result, "error") THEN "false" ELSE "true",
       LengthCell(result),
       Quoted(OrEmpty(result, "title")),
       Quoted(OrEmpty(result, "error")),
       Quoted(OrEmpty(result, "timestamp")) >>

\* resultsToCSV: the rows that csvRows.join('\n') joins
resultsToCSV(list) == << CsvHeaders >> \o [j \in 1..Len(list) |-> CsvRow(list[j])]


\* Object.values(result.headings).flat(): the headings of h1, then h2, ...
RECURSIVE FlatHeadings(_, _)
FlatHeadings(headings, tags) ==
    IF tags = << >> THEN << >>
    ELSE (IF Head(tags) \in DOMAIN headings THEN headings[Head(tags)] ELSE << >>)
         \o FlatHeadings(headings, Tail(tags))

\* every text followed by a line break
RECURSIVE Lines(_)
Lines(texts) ==
    IF texts = << >> THEN << >>
    ELSE Head(texts) \o <<NewLine>> \o Lines(Tail(texts))

\* extractTextFromStructured; the title is one character token of the text
extractTextFromStructured(result) ==
    IF "text" \in DOMAIN result /\ result.text # << >> THEN result.text
    ELSE (IF Truthy(result, "title") THEN <<result.title, NewLine, NewLine>> ELSE << >>)
         \o (IF "headings" \in DOMAIN result
             THEN Lines(FlatHeadings(result.headings,
                                     <<"h1", "h2", "h3", "h4", "h5", "h6">>))
                  \o <<NewLine>>
             ELSE << >>)
         \o (IF "paragraphs" \in DOMAIN result
             THEN Join(result.paragraphs, <<NewLine, NewLine>>) ELSE << >>)

\* one block of the txt format: `=== ${r.url} ===\n${text}\n\n`
TxtBlock(r) ==
    [ header |-> "=== " \o r.url \o " ===",
      text |-> IF "text" \in DOMAIN r /\ r.text # << >> THEN r.text
               ELSE extractTextFromStructured(r) ]

\* results.filter(r => !r.error).map(...): the blocks that join('') joins
RECURSIVE TxtBlocks(_)
TxtBlocks(list) ==
    IF list = << >> THEN << >>
    ELSE (IF ~Truthy(Head(list), "error") THEN << TxtBlock(Head(list)) >> ELSE << >>)
         \o TxtBlocks(Tail(list))

\* the variables of a batch run that the output operations only read
outputRest == << given, options, urls, structured, batchSize, i, results, batch, n,
                 batchResults, page, redirectInfo, net, responses, loaded, alive, sel,
                 content, settled, openPages, extra, log >>

Formats == {"json", "txt", "csv"}

\* what saveResults writes for a format
Written(list, format) ==
    IF format = "json" THEN [format |-> "json", results |-> list]
    ELSE IF format = "txt" THEN [format |-> "txt", blocks |-> TxtBlocks(list)]
    ELSE [format |-> "csv", rows |-> resultsToCSV(list)]

\* if (outputFile) await this.saveResults(results, outputFile, outputFormat);
\* return results
SaveResults ==
    /\ pc = "scrapeUrls"
    /\ ~(i < Len(urls))
    /\ \E format \in Formats : file' = Some(Written(results, format))
    /\ pc' = "done"
    /\ UNCHANGED << outputRest, browser, context, failures, calls, sessions, launches,
                    stats, config, preset, customOptions, scraper, cliVars >>

\* results.filter(r => !r.error).length
Successful(list) == Cardinality({j \in 1..Len(list) : ~Truthy(list[j], "error")})

\* results.filter(r => r.error).length
Failed(list) == Cardinality({j \in 1..Len(list) : Truthy(list[j], "error")})

\* a number with one decimal, given in tenths, as toFixed(1) prints it
Fixed1(tenths) == ToString(tenths \div 10) \o "." \o ToString(tenths % 10)

\* (num / den * 100).toFixed(1), num and den not negative; 0 / 0 is NaN
PercentFixed1(num, den) ==
    IF den = 0 THEN "NaN"
    ELSE Fixed1((2000 * num + den) \div (2 * den))

\* the success rate both command lines print
SuccessRate(list) == PercentFixed1(Successful(list), Len(list))

\* the command line of bulk-scraper.js after scrapeUrls returned
CliReport ==
    /\ pc = "done"
    /\ stats' = Some([ completed |-> Len(results), successRate |-> SuccessRate(results) ])
    /\ pc' = "reported"
    /\ UNCHANGED << outputRest, browser, context, failures, calls, sessions, launches,
                    file, config, preset, customOptions, scraper, cliVars >>

\* handleBulkMode after scrapeUrls returned; it exits before the batch when
\* there is no URL
HandleBulkModeReport ==
    /\ pc = "done"
    /\ Len(urls) > 0
    /\ stats' = Some([ total |-> Len(results), successful |-> Successful(results),
                       failed |-> Failed(results),
                       successRate |-> SuccessRate(results) ])
    /\ pc' = "reported"
    /\ UNCHANGED << outputRest, browser, context, failures, calls, sessions, launches,
                    file, config, preset, customOptions, scraper, cliVars >>

OutputNext == SaveResults \/ ScrapeUrlsReturn \/ CliReport \/ HandleBulkModeReport

SpecOutput == OutputInit /\ [][OutputNext]_vars

----------------------------------------------------------------------------
(* C14 *)

\* the number of success outcomes of a result list
Successes(list) == Cardinality({j \in 1..Len(list) : IsSuccessEntry(list[j])})

\* C14: the success rate a command line prints for a batch is
\* successes/total as a percentage, and is 0 when the batch has no outcome.
C14_SuccessRateDefined ==
    stats # None =>
        The(stats).successRate =
            IF Len(results) = 0 THEN Fixed1(0)
            ELSE PercentFixed1(Successes(results), Len(results))

----------------------------------------------------------------------------
(* C15 *)

\* C15: the statistics count as successful exactly the success outcomes and
\* as failed every other entry (generic error, redirect detected, sections
\* not found), so that successful + failed = total.
C15_SuccessCountsOnlySuccesses ==
    (stats # None /\ "successful" \in DOMAIN The(stats)) =>
        /\ The(stats).successful = Successes(results)
        /\ The(stats).failed = Len(results) - Successes(results)
        /\ The(stats).successful + The(stats).failed = The(stats).total

----------------------------------------------------------------------------
(* C16 *)

\* the file saveResults wrote in a format
Wrote(format) == file # None /\ The(file).format = format

\* C16: the CSV is the header row followed by one row per outcome in input
\* order; the success cell is "true" exactly for the success outcomes and
\* "false" for every other kind, and the error cell is empty exactly for
\* the success outcomes.
C16_CsvSuccessColumn ==
    Wrote("csv") =>
        LET rows == The(file).rows
        IN  /\ Len(rows) = Len(results) + 1
            /\ rows[1] = CsvHeaders
            /\ \A j \in 1..Len(results) :
                  /\ rows[j + 1][1] = Quoted(results[j].url)
                  /\ rows[j + 1][2] = IF IsSuccessEntry(results[j]) THEN "true"
                                      ELSE "false"
                  /\ rows[j + 1][5] = Quoted("") <=> IsSuccessEntry(results[j])

----------------------------------------------------------------------------
(* C17 *)

\* the headers of the blocks of the success outcomes of a list, in order
RECURSIVE SuccessHeaders(_)
SuccessHeaders(list) ==
    IF list = << >> THEN << >>
    ELSE (IF IsSuccessEntry(Head(list))
          THEN << "=== " \o Head(list).url \o " ===" >> ELSE << >>)
         \o SuccessHeaders(Tail(list))

\* C17: the TXT output has one `=== <url> ===` block per success outcome, in
\* input order, and none for an entry of the generic error, redirect or
\* sections-not-found kind.
C17_TxtOnlySuccesses ==
    Wrote("txt") =>
        [k \in 1..Len(The(file).blocks) |-> The(file).blocks[k].header]
            = SuccessHeaders(results)

----------------------------------------------------------------------------
(* ConfigurableScraper: the options its WebScraper is constructed with     *)

\* an object with the key only if a value is given (<< >> = key left out)
Opt(key, value) == IF value = None THEN << >> ELSE [k \in {key} |-> The(value)]

\* the option objects a layer (config.defaultOptions, a preset, the
\* customOptions argument) may be: each of headless, timeout and
\* excludeSelectors left out or given, with the falsy values among them
OptionLayers ==
    { Opt("headless", h) @@ Opt("timeout", t) @@ Opt("excludeSelectors", e) :
        h \in {None, Some(TRUE), Some(FALSE)},
        t \in {None, Some(0), Some(5000)},
        e \in {None, Some(<< >>), Some(<<"nav">>)} }

\* the name of the preset config.json defines, and a name it does not define
PresetNames == {"fast"}
PresetArguments == {Null, "fast", "missing"}

\* { ...lower, ...upper }
Spread(lower, upper) == upper @@ lower

\* the options object the constructor of ConfigurableScraper builds
MergedOptions(cfg, presetName, custom) ==
    LET base == Spread(<< >>, cfg.defaultOptions)
        withPreset == IF presetName # Null /\ presetName \in DOMAIN cfg.presets
                      THEN Spread(base, cfg.presets[presetName])
                      ELSE base
    IN  Spread(withPreset, custom)

DefaultExcludeSelectors ==
    << "script", "style", "nav", "footer", "aside", ".ads", ".advertisement" >>

DefaultUserAgent == "Mozilla/5.0"

\* options.timeout || 30000
TimeoutOr(opts, default) ==
    IF "timeout" \in DOMAIN opts /\ opts.timeout # 0 THEN opts.timeout ELSE default

\* options[key] || default, for a key that holds a string
StringOr(opts, key, default) ==
    IF key \in DOMAIN opts /\ opts[key] # "" THEN opts[key] ELSE default

\* options[key] || default, for a key that holds an array (always truthy)
ArrayOr(opts, key, default) == IF key \in DOMAIN opts THEN opts[key] ELSE default

\* options[key] !== false
NotFalse(opts, key) == IF key \in DOMAIN opts THEN opts[key] # FALSE ELSE TRUE

\* this.options of the WebScraper constructor, every key of it
ConstructedOptions(opts) ==
    [ browser          |-> StringOr(opts, "browser", "chromium"),
      headless         |-> NotFalse(opts, "headless"),
      timeout          |-> TimeoutOr(opts, 30000),
      sectionSelectors |-> ArrayOr(opts, "sectionSelectors", << >>),
      waitForSelector  |-> StringOr(opts, "waitForSelector", Null),
      excludeSelectors |-> ArrayOr(opts, "excludeSelectors", DefaultExcludeSelectors),
      userAgent        |-> StringOr(opts, "userAgent", DefaultUserAgent),
      followRedirects  |-> NotFalse(opts, "followRedirects") ]

ConfigInit ==
    /\ NoBatch
    /\ browser = Null
    /\ context = Null
    /\ failures = 0
    /\ calls = << >>
    /\ sessions = {}
    /\ launches = 0
    /\ file = << >>
    /\ stats = << >>
    /\ config \in { [ defaultOptions |-> d, presets |-> [name \in PresetNames |-> p] ] :
                      d \in OptionLayers, p \in OptionLayers }
    /\ preset \in PresetArguments
    /\ customOptions \in OptionLayers
    /\ scraper = None
    /\ argv = << >>
    /\ bulkOptions = << >>

\* new ConfigurableScraper(preset, customOptions)
Construct ==
    /\ scraper = None
    /\ scraper' = Some(ConstructedOptions(MergedOptions(config, preset, customOptions)))
    /\ UNCHANGED << batchVars, browser, context, failures, calls, sessions, launches,
                    file, stats, config, preset, customOptions, cliVars >>

ConfigNext == Construct

SpecConfig == ConfigInit /\ [][ConfigNext]_vars

----------------------------------------------------------------------------
(* C18 *)

\* the layers of the running construction, highest precedence first
LayersByPrecedence ==
    << customOptions >>
    \o (IF preset \in PresetNames THEN << config.presets[preset] >> ELSE << >>)
    \o << config.defaultOptions >>

\* the value of a key in the first layer that defines it, else the value a
\* WebScraper constructed without options has
RECURSIVE FirstDefined(_, _)
FirstDefined(layers, key) ==
    IF layers = << >> THEN ConstructedOptions(<< >>)[key]
    ELSE IF key \in DOMAIN Head(layers) THEN Head(layers)[key]
    ELSE FirstDefined(Tail(layers), key)

\* C18: for every option key the constructed WebScraper runs with the value
\* of the per-call override if given, else of the preset if it exists and
\* defines the key, else of the defaults; arrays are replaced wholesale;
\* this holds for the values false, 0 and the empty list too.
C18_OverridePresetDefault ==
    scraper # None =>
        \A key \in {"headless", "timeout", "excludeSelectors"} :
            The(scraper)[key] = FirstDefined(LayersByPrecedence, key)

----------------------------------------------------------------------------
(* The extraction on any small document: the state of a scrape call after  *)
(* page.goto resolved on a page that holds the document.                   *)

\* the most elements under body of a document
MaxElements == 3

ElementTags == {"div", "p", "a", "h2", "img", "nav"}

\* element k of a document: every element has its own id, its own text
\* (an img has none) and, if an anchor or an image, its own href / src
ElementAt(k, parent, tag, cls) ==
    [ parent |-> parent, tag |-> tag, id |-> "e" \o ToString(k), cls |-> cls,
      text |-> IF tag = "img" THEN << >> ELSE << "t" \o ToString(k) >>,
      ref |-> IF tag \in {"a", "img"} THEN "ref" \o ToString(k) ELSE "" ]

\* the documents of at most len elements, in document order: the parent
\* of an element is body or an element before it that can have children
RECURSIVE Documents(_)
Documents(len) ==
    IF len = 0 THEN { << >> }
    ELSE Documents(len - 1)
         \cup { Append(d, ElementAt(len, parent, tag, cls)) :
                  d \in { x \in Documents(len - 1) : Len(x) = len - 1 },
                  parent \in 0..(len - 1), tag \in ElementTags, cls \in {"", "x"} }

\* the exclude selectors and the section selectors of the scraper
ExcludeChoices == { << >>, <<"nav">>, <<".x">>, <<"nav", ".x">>, <<".x", "nav">> }
SectionChoices == { << >>, <<"div">>, <<".x">>, <<"div", ".x">>, <<".x", "div">> }

\* the response of a navigation that was answered at once
Answered(u) ==
    [ url |-> u, redirectedFrom |-> FALSE, status |-> 200, location |-> "", main |-> TRUE ]

ExtractInit ==
    /\ \E ex \in ExcludeChoices, se \in SectionChoices :
          given = Given("undefined", se, ex, Null)
    /\ options = WebScraperOptions(given)
    /\ urls = <<"http://b/">>
    /\ structured \in BOOLEAN
    /\ ~structured => options.sectionSelectors = << >>
    /\ batchSize = 1
    /\ pc = IF structured THEN "evaluate" ELSE "exclude"
    /\ i = 0
    /\ results = << >>
    /\ batch = urls
    /\ n = 1
    /\ batchResults = << >>
    /\ browser = "open"
    /\ context = "open"
    /\ page = "open"
    /\ redirectInfo = None
    /\ net = [main |-> "loaded", sub |-> "idle"]
    /\ responses = << Answered("http://b/") >>
    /\ \E d \in Documents(MaxElements) :
          /\ loaded = Some([title |-> "Title", body |-> d])
          /\ alive = 1..Len(d)
    /\ sel = 1
    /\ content = None
    /\ settled = None
    /\ openPages = 1
    /\ failures = 0
    /\ extra = 0
    /\ log = << [ev |-> "scrape", at |-> 1], [ev |-> "goto", at |-> 1] >>
    /\ AsideIdle

ExtractNext == Evaluate \/ Exclude \/ ExtractText

SpecExtract == ExtractInit /\ [][ExtractNext]_vars

----------------------------------------------------------------------------
(* C19 *)

\* the document of the running call
Doc == The(loaded).body

\* an element matches one of the selectors of a list
MatchesAny(el, selectors) == \E k \in 1..Len(selectors) : Matches(el, selectors[k])

\* the elements outside every excluded subtree: neither they nor one of
\* their ancestors match an exclude selector
Kept == { e \in 1..Len(Doc) :
            \A a \in 1..Len(Doc) :
                IsUnder(Doc, e, a) => ~MatchesAny(Doc[a], options.excludeSelectors) }

\* the characters and the href / src values of the excluded subtrees
ExcludedTokens ==
    UNION { ({ Doc[e].text[k] : k \in 1..Len(Doc[e].text) } \cup { Doc[e].ref }) \ { "" } :
            e \in (1..Len(Doc)) \ Kept }

\* the characters of the texts of a list
CharsOf(texts) == UNION { { texts[k][c] : c \in 1..Len(texts[k]) } : k \in 1..Len(texts) }

\* every character, href and src that the data of extractFromElement holds
DataTokens(data) ==
    UNION { CharsOf(data.headings[tag]) : tag \in DOMAIN data.headings }
    \cup CharsOf(data.paragraphs)
    \cup CharsOf(data.otherText)
    \cup CharsOf([k \in 1..Len(data.links) |-> data.links[k].text])
    \cup { data.links[k].href : k \in 1..Len(data.links) }
    \cup UNION { CharsOf(data.lists[k].items) : k \in 1..Len(data.lists) }
    \cup { data.images[k].src : k \in 1..Len(data.images) }

\* every character, href and src of a structured content
ContentTokens(structuredContent) ==
    IF "sections" \in DOMAIN structuredContent
    THEN UNION { DataTokens(structuredContent.sections[k])
                 \cup CharsOf(<< structuredContent.sections[k].title >>) :
                 k \in 1..Len(structuredContent.sections) }
    ELSE DataTokens(structuredContent)

\* the extraction of the running call has produced its content
Extracted == content # None /\ pc \in {"afterEvaluate", "closeText"}

\* C19: in both modes the extraction reads the document only after every
\* element that matches an exclude selector is gone with its subtree: the
\* result holds no text, href or src of an excluded subtree, and in section
\* mode the sections are matched among the elements that are left.
C19_ExcludedSubtreesContributeNothing ==
    /\ pc = "exclude" =>
          alive = RemoveExcluded(Doc, 1..Len(Doc), SubSeq(options.excludeSelectors, 1, sel - 1))
    /\ Extracted =>
          /\ alive = Kept
          /\ IF ~structured
             THEN { The(content)[c] : c \in 1..Len(The(content)) } \cap ExcludedTokens = {}
             ELSE IF SectionsNotFound(The(content))
             THEN \A e \in Kept : ~MatchesAny(Doc[e], options.sectionSelectors)
             ELSE /\ ContentTokens(The(content)) \cap ExcludedTokens = {}
                  /\ "sections" \in DOMAIN The(content) =>
                        \A k \in 1..Len(The(content).sections) :
                            \E e \in Kept :
                                /\ MatchesAny(Doc[e], options.sectionSelectors)
                                /\ The(content).sections[k].id = Doc[e].id

\* section mode: an element that matches a section selector was excluded, a
\* paragraph lay inside an excluded subtree, and sections were returned
C19_Witness ==
    /\ Extracted /\ structured
    /\ "sections" \in DOMAIN The(content)
    /\ \E e \in (1..Len(Doc)) \ Kept : MatchesAny(Doc[e], options.sectionSelectors)
    /\ \E e \in (1..Len(Doc)) \ Kept : Doc[e].tag = "p" /\ Doc[e].parent # 0

----------------------------------------------------------------------------
(* C20 *)

\* the elements left after the exclusion that a section selector matches
Matched == { e \in Kept : MatchesAny(Doc[e], options.sectionSelectors) }

\* the position of the first listed section selector that matches e
FirstSelector(e) ==
    CHOOSE k \in 1..Len(options.sectionSelectors) :
        /\ Matches(Doc[e], options.sectionSelectors[k])
        /\ \A j \in 1..(k - 1) : ~Matches(Doc[e], options.sectionSelectors[j])

\* a is encountered before b: by an earlier selector, or by the same
\* selector and earlier in the document
EncounteredBefore(a, b) ==
    \/ FirstSelector(a) < FirstSelector(b)
    \/ FirstSelector(a) = FirstSelector(b) /\ a < b

\* the matched elements in the order of their first encounter
ByFirstEncounter ==
    [ k \in 1..Cardinality(Matched) |->
        CHOOSE e \in Matched :
            Cardinality({ y \in Matched : EncounteredBefore(y, e) }) = k - 1 ]

\* the extraction returned sections
SectionsReturned ==
    Extracted /\ structured /\ "sections" \in DOMAIN The(content)

\* C20: in section mode the sections list holds every element that a
\* section selector matches exactly once, in the order of first encounter
\* when the selectors are evaluated in listed order (document order within
\* one selector).
C20_SectionsOnceByFirstEncounter ==
    /\ (Extracted /\ structured /\ options.sectionSelectors # << >>) =>
          (SectionsNotFound(The(content)) <=> Matched = {})
    /\ SectionsReturned =>
          [ k \in 1..Len(The(content).sections) |-> The(content).sections[k].id ]
              = [ k \in 1..Cardinality(Matched) |-> Doc[ByFirstEncounter[k]].id ]

\* sections were returned, one element matches both selectors, and an
\* element later in the document comes first in the list
C20_Witness ==
    /\ SectionsReturned
    /\ \E e \in Matched :
          \A k \in 1..Len(options.sectionSelectors) :
              Matches(Doc[e], options.sectionSelectors[k])
    /\ Len(options.sectionSelectors) = 2
    /\ \E a, b \in Matched : a < b /\ EncounteredBefore(b, a)

----------------------------------------------------------------------------
(* C21 *)

\* the fields of a structured result other than url and timestamp
ContentOf(entry) == [ f \in DOMAIN entry \ {"url", "timestamp"} |-> entry[f] ]

\* the entry is a structured result; its title tells which page was loaded
\* (the pages have different titles)
IsStructuredSuccess(e) == IsSuccessEntry(e) /\ "title" \in DOMAIN e

----------------------------------------------------------------------------
(* Batches whose URL list may hold a string that is no URL.  The file      *)
(* filter of scrapeUrlsFromFile and the check of handleBulkMode let every  *)
(* string through that starts with "http".                                 *)

\* the longest URL list of these batches
MaxGivenUrls == 2

\* line && line.startsWith('http'), url.startsWith('http')
StartsWithHttp(u) == u \in {MalformedUrl} \cup RequestUrls

GivenUrls == { u \in {MalformedUrl, "http://b/"} : StartsWithHttp(u) }

RECURSIVE GivenUrlLists(_)
GivenUrlLists(len) ==
    IF len = 0 THEN { << >> }
    ELSE GivenUrlLists(len - 1)
         \cup { Append(l, u) : l \in { x \in GivenUrlLists(len - 1) : Len(x) = len - 1 },
                               u \in GivenUrls }

UrlsInit ==
    /\ given \in GivenOptions
    /\ options = WebScraperOptions(given)
    /\ urls \in GivenUrlLists(MaxGivenUrls)
    /\ structured \in BOOLEAN
    /\ batchSize \in 1..MaxBatchSize
    /\ pc = "scrapeUrls"
    /\ i = 0
    /\ results = << >>
    /\ batch = << >>
    /\ n = 1
    /\ batchResults = << >>
    /\ browser = Null
    /\ context = Null
    /\ page = "none"
    /\ redirectInfo = None
    /\ net = NoNet
    /\ responses = << >>
    /\ loaded = None
    /\ alive = {}
    /\ sel = 1
    /\ content = None
    /\ settled = None
    /\ openPages = 0
    /\ failures = 0
    /\ extra = 0
    /\ log = << >>
    /\ AsideIdle

UrlsNext == Next \/ GotoRejectsInvalid

SpecUrls == UrlsInit /\ [][UrlsNext]_vars

----------------------------------------------------------------------------
(* C22 *)

\* a scrape call is running or has just ended
InCall == pc \notin {"scrapeUrls", "forUrl", "delay", "pause", "done"}

\* C22: a call for a malformed URL ends with a validation error, and
\* neither acquires a page nor starts a navigation for it.
C22_MalformedUrlRejectedFirst ==
    (InCall /\ Malformed(url)) =>
        /\ page = "none"
        /\ Count("goto", Current) = 0
        /\ (Settled /\ failures = 0) => Threw("ValidationError")

----------------------------------------------------------------------------
(* C23 *)

\* the kind markers an entry carries
Markers(e) == DOMAIN e \cap {"error", "redirect", "sectionsNotFound"}

\* the entry has the fields of its one kind
WellFormedEntry(e) ==
    /\ Cardinality(Markers(e)) <= 1
    /\ IsRedirectEntry(e) =>
          e.redirect = TRUE /\ {"status", "location"} \subseteq DOMAIN e
    /\ IsSectionsNotFoundEntry(e) =>
          e.sectionsNotFound = TRUE /\ "selectors" \in DOMAIN e

\* the catch block runs on an error that is neither a RedirectError nor a
\* SectionNotFoundError
CatchesGeneric ==
    /\ Threw("Error")
    /\ Len(batchResults') = Len(batchResults) + 1

\* C23: every entry of a batch result is of exactly one kind, with the
\* fields of that kind; a generic error entry holds the message of the
\* caught error as it was; no step records more than one entry and there
\* are never more entries than scrape calls were started.
C23_EntriesOfExactlyOneKind ==
    /\ [](/\ \A j \in 1..Len(Entries) : WellFormedEntry(Entries[j])
          /\ Len(Entries) <= Cardinality(Positions("scrape")))
    /\ [][ /\ Len(batchResults') <= Len(batchResults) + 1
           /\ CatchesGeneric =>
                 /\ IsErrorEntry(batchResults'[Len(batchResults')])
                 /\ batchResults'[Len(batchResults')].error = The(settled).value.message
         ]_vars

\* a finished batch with a redirect entry, a sections-not-found entry and a
\* generic error entry
C23_Witness ==
    /\ Done
    /\ \E j \in 1..Len(results) : IsRedirectEntry(results[j])
    /\ \E j \in 1..Len(results) : IsSectionsNotFoundEntry(results[j])
    /\ \E j \in 1..Len(results) : IsErrorEntry(results[j])

----------------------------------------------------------------------------
(* The unified command line: main and its three handlers, each up to the   *)
(* call of the scraper it constructs.                                      *)

\* a JS number: an integer or NaN
Number(k) == [ nan |-> FALSE, value |-> k ]
NaN == [ nan |-> TRUE ]

\* parseInt of the strings given after --batch-size and --delay
ParseInt(arg) ==
    IF arg = "2" THEN Number(2)
    ELSE IF arg = "0" THEN Number(0)
    ELSE IF arg = "-1" THEN Number(-1)
    ELSE NaN

NumberArguments == { None, Some("2"), Some("0"), Some("-1"), Some("abc") }

\* the command lines: --file or URL arguments (urls are the URL arguments,
\* with --file the valid lines of the file), --preset, --group-by,
\* --structured, --batch-size, --delay
CommandLines ==
    { [ file |-> f, preset |-> p, urls |-> u, groupBy |-> g, structured |-> s,
        batchSize |-> b, delay |-> d ] :
      f \in BOOLEAN, p \in {Null, "fast"},
      u \in { << >>, <<"http://b/">>, <<"http://b/", "http://a">> },
      g \in { << >>, <<"section">> }, s \in BOOLEAN,
      b \in NumberArguments, d \in { None, Some("0"), Some("-1") } }

\* config.json: the defaults and one preset
ConfigFiles ==
    { [ defaultOptions |-> [ browser |-> "chromium", headless |-> TRUE, timeout |-> 30000 ],
        presets |-> [ name \in PresetNames |-> p ] ] :
      p \in { [ timeout |-> 5000 ], [ sectionSelectors |-> <<"article">> ] } }

CliInit ==
    /\ NoBatch
    /\ browser = Null
    /\ context = Null
    /\ failures = 0
    /\ calls = << >>
    /\ sessions = {}
    /\ launches = 0
    /\ file = << >>
    /\ stats = << >>
    /\ config \in ConfigFiles
    /\ preset = << >>
    /\ customOptions = << >>
    /\ scraper = None
    /\ argv \in CommandLines
    /\ bulkOptions = None

\* the automatic mode detection of main
Mode ==
    IF argv.file THEN "bulk"
    ELSE IF argv.preset # Null THEN (IF Len(argv.urls) = 0 THEN "exit" ELSE "config")
    ELSE IF Len(argv.urls) > 1 THEN "bulk"
    ELSE IF Len(argv.urls) = 1 THEN "single"
    ELSE "exit"

\* the variables no handler of the command line writes
cliRest == << given, batchSize, i, results, batch, n, batchResults, page, redirectInfo,
              net, responses, loaded, alive, sel, content, settled, openPages, extra,
              log, browser, context, failures, calls, sessions, launches, file, stats,
              config, argv >>

\* main finds no URL to scrape: process.exit(1)
MainExits ==
    /\ pc = "none"
    /\ Mode = "exit"
    /\ pc' = "exit"
    /\ UNCHANGED << cliRest, options, urls, structured, preset, customOptions, scraper,
                    bulkOptions >>

\* handleSingleMode up to the scrape call of the WebScraper it constructs
HandleSingleMode ==
    /\ pc = "none"
    /\ Mode = "single"
    /\ structured' = (argv.structured \/ Len(argv.groupBy) > 0)
    /\ options' = ConstructedOptions(
                      [ browser |-> "chromium", headless |-> TRUE, timeout |-> 30000,
                        followRedirects |-> TRUE, sectionSelectors |-> argv.groupBy ])
    /\ urls' = << argv.urls[1] >>
    /\ pc' = "single"
    /\ UNCHANGED << cliRest, preset, customOptions, scraper, bulkOptions >>

\* bulkOptions after the argument loop of handleBulkMode
ParsedBulkOptions ==
    [ structured |-> (argv.structured \/ Len(argv.groupBy) > 0),
      batchSize  |-> IF argv.batchSize = None THEN Number(5)
                     ELSE ParseInt(The(argv.batchSize)),
      delay      |-> IF argv.delay = None THEN Number(1000) ELSE ParseInt(The(argv.delay)),
      groupBy    |-> argv.groupBy ]

\* handleBulkMode up to its call of bulkScraper.scrapeUrls(urls, bulkOptions);
\* it exits when the file holds no URL
HandleBulkMode ==
    /\ pc = "none"
    /\ Mode = "bulk"
    /\ IF Len(argv.urls) = 0
       THEN pc' = "exit" /\ UNCHANGED << options, urls, structured, bulkOptions >>
       ELSE /\ bulkOptions' = Some(ParsedBulkOptions)
            /\ structured' = ParsedBulkOptions.structured
            /\ options' = ConstructedOptions(
                              [ headless |-> TRUE, browser |-> "chromium",
                                timeout |-> 30000, followRedirects |-> TRUE ])
            /\ urls' = argv.urls
            /\ pc' = "bulk"
    /\ UNCHANGED << cliRest, preset, customOptions, scraper >>

\* handleConfigScrapeCommand up to scraper.scrapeTextStructured(url)
HandleConfigScrapeCommand ==
    /\ pc = "none"
    /\ Mode = "config"
    /\ preset' = argv.preset
    /\ customOptions' = [ groupBy |-> argv.groupBy ]
    /\ scraper' = Some(ConstructedOptions(MergedOptions(config, preset', customOptions')))
    /\ structured' = TRUE
    /\ urls' = << argv.urls[1] >>
    /\ pc' = "config"
    /\ UNCHANGED << cliRest, options, bulkOptions >>

CliNext == MainExits \/ HandleSingleMode \/ HandleBulkMode \/ HandleConfigScrapeCommand

SpecCli == CliInit /\ [][CliNext]_vars

----------------------------------------------------------------------------
(* C24 *)

\* a JS number that is an integer not below k
AtLeast(x, k) == ~x.nan /\ x.value >= k

\* C24: when handleBulkMode calls scrapeUrls, the batchSize it passes is a
\* number >= 1 and the delay is a number >= 0.
C24_BatchOptionsValidated ==
    pc = "bulk" =>
        /\ AtLeast(The(bulkOptions).batchSize, 1)
        /\ AtLeast(The(bulkOptions).delay, 0)

----------------------------------------------------------------------------
(* C25 *)

\* C25: in single mode, in bulk mode and in preset mode the scraper that
\* scrapes has the --group-by selectors as its section selectors.
C25_GroupByReachesScraper ==
    /\ pc \in {"single", "bulk"} => options.sectionSelectors = argv.groupBy
    /\ pc = "config" => The(scraper).sectionSelectors = argv.groupBy

----------------------------------------------------------------------------
(* C26 *)

\* init is between its launch and its context creation
InitInProgress == pc = "newContext"

\* C26: whenever no init call is in progress (the batch never closes), the
\* browser is null if and only if the context is null, also after an init
\* whose launch succeeded and whose context creation failed.
C26_BrowserNullIffContextNull ==
    ~InitInProgress => ((browser = Null) <=> (context = Null))

----------------------------------------------------------------------------
(* C27 *)

\* the browsers launched so far
Launched == { BrowserOf(k) : k \in 1..launches }

\* caller c makes a step of a close() call that found no browser
ClosesWithoutBrowser(c) ==
    calls[c].at = "idle" /\ calls'[c].at = "closed"

\* caller c's await of browser.close() resolves
CloseTakesEffect(c) ==
    calls[c].at = "closing" /\ calls'[c].at = "closed"

\* caller c starts a scrape call
StartsScrape(c) ==
    calls[c].at = "idle" /\ calls'[c].at \in {"launch", "newPage"}

\* C27: a close() that finds no browser returns without changing anything;
\* when a close() takes effect both browser and context are null; a scrape
\* call that starts with no browser launches one, and the browser a launch
\* installs is a new one, never one launched (and possibly closed) before;
\* the installed browser is never a closed one.
C27_CloseIdempotentReversible ==
    /\ [](browser # Null => browser \in sessions)
    /\ [][\A c \in Callers :
            /\ ClosesWithoutBrowser(c) =>
                   UNCHANGED << browser, context, sessions, launches, failures >>
            /\ CloseTakesEffect(c) => browser' = Null /\ context' = Null
            /\ (StartsScrape(c) /\ browser = Null) => calls'[c].at = "launch"
            /\ (calls[c].at = "launch" /\ calls'[c].at = "newContext") =>
                   browser' \notin Launched]_vars

\* a browser was closed, a second close() did nothing, and a later scrape
\* call launched the second browser, the only one open
C27_Witness ==
    /\ \E c \in Callers : calls[c] = [at |-> "closed", on |-> Null]
    /\ launches = 2
    /\ browser = BrowserOf(2)
    /\ sessions = {BrowserOf(2)}

----------------------------------------------------------------------------
(* C28 *)

\* the entry of the URL at position j is pushed, it is a success, and the
\* statement after its push has run
PausedAfter(j) ==
    /\ j <= Len(Entries)
    /\ IsSuccessEntry(Entries[j])
    /\ ~(pc = "pause" /\ Current = j)

----------------------------------------------------------------------------
(* C29 *)

\* the responses of the running navigation on which the listener captured a
\* redirect
SeenRedirects == {k \in 1..Len(responses) :
                     ListenerSees(responses[k]) /\ IsRedirectStatus(responses[k].status)}

\* the last of them
LastSeen == responses[CHOOSE k \in SeenRedirects : \A m \in SeenRedirects : m <= k]

----------------------------------------------------------------------------
(* Termination of scrapeUrls. A scrape call of scrapeMultiplePages is one   *)
(* step here, the step that completes it with the entry it pushes, and the  *)
(* pause after it is part of the step. A step of the batch that is enabled  *)
(* is eventually taken: every pending scrape call and delay completes.      *)

\* the structured content of a page without elements
EmptyContent == StructuredContent(DocEmpty, "", <<"script", "nav">>, << >>)

\* the entries the scrape of u can end with
OutcomesOf(u) ==
    { ErrorEntry(EngineError(MsgGoto), u),
      ErrorEntry(RedirectError(302, RedirectTarget, u), u),
      IF structured
      THEN StructuredResult(BrowserUrl(u), EmptyContent)
      ELSE TextResult(u, <<"Hello">>) }

\* one iteration of the loop of scrapeMultiplePages, from the scrape call to
\* the push of its entry
ScrapeCompletes ==
    /\ pc = "forUrl"
    /\ n <= Len(batch)
    /\ \E e \in OutcomesOf(url) : batchResults' = Append(batchResults, e)
    /\ n' = n + 1
    /\ UNCHANGED << job, aside, scrapeUrlsVars, pc, browser, context, page, redirectInfo,
                    engineVars, sel, content, settled, openPages, log, failures, extra >>

FairNext == ChunkStart \/ ScrapeCompletes \/ ChunkEnd \/ Delay \/ ScrapeUrlsReturn

SpecFair == Init /\ [][FairNext]_vars /\ WF_vars(FairNext)

\* an iteration of the chunk loop of scrapeUrls ends
IterationEnds == (pc = "forUrl" /\ pc' = "scrapeUrls") \/ pc = "delay"

\* C30: for every URL list and every batchSize >= 1 scrapeUrls eventually
\* returns; at the end of every iteration the chunk start index, which was
\* below the list length, increases by batchSize, and it changes nowhere
\* else.
C30_ScrapeUrlsTerminates ==
    /\ <>Done
    /\ [][/\ IterationEnds => (i < Len(urls) /\ i' = i + batchSize /\ i' > i)
          /\ ~IterationEnds => i' = i]_vars

\* scrapeUrls returned after three chunks of one URL
C30_Witness ==
    /\ Done
    /\ batchSize = 1
    /\ Len(urls) = MaxUrls
    /\ i = MaxUrls
    /\ Len(results) = MaxUrls

====
